---- MODULE Spec2Model ----
(***************************************************************************)
(* Schema inference and structural binding of sync_templates:              *)
(* merge_dicts, get_common_structure and create_dataclass_from_dict of     *)
(* generate_mongo.py and templates_dummy_gen/generate.py, and the          *)
(* from_dict call of main with its type hooks and Config.                  *)
(*                                                                         *)
(* A JSON value is a record [k, v]: k is the Python type of the value      *)
(* ("null", "bool", "int", "str", "list", "dict") and v its payload (a     *)
(* number, a string, a sequence of values, a function from keys to         *)
(* values).  A Python dict is compared by its key/value pairs, not by its  *)
(* insertion order, so a function models it.                               *)
(***************************************************************************)
EXTENDS Integers, Sequences, FiniteSets, TLC

----------------------------------------------------------------------------
(* JSON values *)

Null == [k |-> "null", v |-> 0]
I(n) == [k |-> "int", v |-> n]
S(s) == [k |-> "str", v |-> s]
L(s) == [k |-> "list", v |-> s]
D(f) == [k |-> "dict", v |-> f]

isdict(x) == x.k = "dict"
islist(x) == x.k = "list"

\* [f(x) for x in s]
Map(s, f(_)) == [i \in 1..Len(s) |-> f(s[i])]

\* any(p(x) for x in s)
any_of(s, p(_)) == \E i \in 1..Len(s) : p(s[i])

----------------------------------------------------------------------------
(* merge_dicts: the two copies *)

RECURSIVE merge_dicts(_, _)
merge_dicts(a, b) ==
  D([key \in DOMAIN a.v \cup DOMAIN b.v |->
       IF key \notin DOMAIN b.v THEN a.v[key]
       ELSE IF key \notin DOMAIN a.v THEN b.v[key]
       ELSE IF isdict(a.v[key]) /\ isdict(b.v[key])
            THEN merge_dicts(a.v[key], b.v[key])
            ELSE b.v[key]])

RECURSIVE tdg_merge_dicts(_, _)
tdg_merge_dicts(a, b) ==
  D([key \in DOMAIN a.v \cup DOMAIN b.v |->
       IF key \notin DOMAIN b.v THEN a.v[key]
       ELSE IF key \notin DOMAIN a.v THEN b.v[key]
       ELSE IF isdict(a.v[key]) /\ isdict(b.v[key])
            THEN tdg_merge_dicts(a.v[key], b.v[key])
            ELSE Null])

----------------------------------------------------------------------------
(* get_common_structure *)

\* [item[key] for item in items if key in item]
values_of(items, key) ==
  Map(SelectSeq(items, LAMBDA item : key \in DOMAIN item.v),
      LAMBDA item : item.v[key])

\* get_common_structure with one step changed:
\*   "keys_of_first"    all_keys is the key set of the first item
\*   "null_as_list"     a field with only null values becomes an empty list
\*   "optional_as_list" a field missing from some item becomes an empty list
RECURSIVE get_common_structure_variant(_, _)
get_common_structure_variant(items, variant) ==
  IF items = <<>> THEN D(<<>>)
  ELSE
    LET all_keys == IF variant = "keys_of_first" THEN DOMAIN items[1].v
                    ELSE UNION {DOMAIN items[i].v : i \in 1..Len(items)}
        common(key) ==
          LET values == values_of(items, key)
              non_null_values == SelectSeq(values, LAMBDA x : x # Null)
              dicts == SelectSeq(non_null_values, isdict)
              list_samples ==
                SelectSeq(non_null_values, LAMBDA x : islist(x) /\ x.v # <<>>)
          IN  IF Len(values) < Len(items)
              THEN IF variant = "optional_as_list" THEN L(<<>>) ELSE Null
              ELSE IF non_null_values = <<>>
                   THEN IF variant = "null_as_list" THEN L(<<>>) ELSE Null
              ELSE IF any_of(non_null_values, isdict)
                   THEN get_common_structure_variant(dicts, variant)
              ELSE IF any_of(non_null_values, islist)
                   THEN IF list_samples # <<>>
                        THEN L(<<list_samples[1].v[1]>>)
                        ELSE L(<<>>)
              ELSE non_null_values[1]
    IN  D([key \in all_keys |-> common(key)])

get_common_structure_keys_of_first(items) ==
  get_common_structure_variant(items, "keys_of_first")

get_common_structure_null_as_list(items) ==
  get_common_structure_variant(items, "null_as_list")

get_common_structure_optional_as_list(items) ==
  get_common_structure_variant(items, "optional_as_list")

\* get_common_structure taking the last element of the first non-empty list
RECURSIVE get_common_structure_last_element(_)
get_common_structure_last_element(items) ==
  IF items = <<>> THEN D(<<>>)
  ELSE
    LET all_keys == UNION {DOMAIN items[i].v : i \in 1..Len(items)}
        common(key) ==
          LET values == values_of(items, key)
              non_null_values == SelectSeq(values, LAMBDA x : x # Null)
              dicts == SelectSeq(non_null_values, isdict)
              list_samples ==
                SelectSeq(non_null_values, LAMBDA x : islist(x) /\ x.v # <<>>)
          IN  IF Len(values) < Len(items) THEN Null
              ELSE IF non_null_values = <<>> THEN Null
              ELSE IF any_of(non_null_values, isdict)
                   THEN get_common_structure_last_element(dicts)
              ELSE IF any_of(non_null_values, islist)
                   THEN IF list_samples # <<>>
                        THEN L(<<list_samples[1].v[Len(list_samples[1].v)]>>)
                        ELSE L(<<>>)
              ELSE non_null_values[1]
    IN  D([key \in all_keys |-> common(key)])

RECURSIVE get_common_structure(_)
get_common_structure(items) ==
  IF items = <<>> THEN D(<<>>)
  ELSE
    LET all_keys == UNION {DOMAIN items[i].v : i \in 1..Len(items)}
        common(key) ==
          LET values == values_of(items, key)
              non_null_values == SelectSeq(values, LAMBDA x : x # Null)
              dicts == SelectSeq(non_null_values, isdict)
              list_samples ==
                SelectSeq(non_null_values, LAMBDA x : islist(x) /\ x.v # <<>>)
          IN  IF Len(values) < Len(items) THEN Null
              ELSE IF non_null_values = <<>> THEN Null
              ELSE IF any_of(non_null_values, isdict)
                   THEN get_common_structure(dicts)
              ELSE IF any_of(non_null_values, islist)
                   THEN IF list_samples # <<>>
                        THEN L(<<list_samples[1].v[1]>>)
                        ELSE L(<<>>)
              ELSE non_null_values[1]
    IN  D([key \in all_keys |-> common(key)])

----------------------------------------------------------------------------
(* create_dataclass_from_dict: a class is its annotations, a function from *)
(* field names to types *)

AnyT == [k |-> "Any", v |-> 0]
Prim(n) == [k |-> n, v |-> 0]
OptionalOf(t) == [k |-> "Optional", v |-> t]
ListOf(t) == [k |-> "List", v |-> t]
Class(fields) == [k |-> "class", v |-> fields]

\* type(item) of a JSON value
type(x) == Prim(x.k)

\* create_dataclass_from_dict taking the structure of the first dict of a
\* list in place of the common structure of all its dicts
RECURSIVE create_dataclass_from_dict_first_dict(_)
create_dataclass_from_dict_first_dict(data) ==
  LET field_type(value) ==
        IF value = Null THEN OptionalOf(AnyT)
        ELSE IF isdict(value)
             THEN OptionalOf(create_dataclass_from_dict_first_dict(value))
        ELSE IF islist(value)
             THEN LET dicts == SelectSeq(value.v, isdict)
                      item_types ==
                        {type(value.v[i]) :
                           i \in {j \in 1..Len(value.v) : value.v[j] # Null}}
                  IN  IF Len(value.v) = 0 THEN ListOf(AnyT)
                      ELSE IF dicts # <<>>
                           THEN ListOf(create_dataclass_from_dict_first_dict(
                                         get_common_structure(<<dicts[1]>>)))
                      ELSE IF item_types = {} THEN ListOf(OptionalOf(AnyT))
                      ELSE IF Cardinality(item_types) = 1
                           THEN ListOf(CHOOSE t \in item_types : TRUE)
                      ELSE ListOf(AnyT)
        ELSE OptionalOf(type(value))
  IN  Class([key \in DOMAIN data.v |-> field_type(data.v[key])])

RECURSIVE create_dataclass_from_dict(_)
create_dataclass_from_dict(data) ==
  LET field_type(value) ==
        IF value = Null THEN OptionalOf(AnyT)
        ELSE IF isdict(value)
             THEN OptionalOf(create_dataclass_from_dict(value))
        ELSE IF islist(value)
             THEN LET dicts == SelectSeq(value.v, isdict)
                      item_types ==
                        {type(value.v[i]) :
                           i \in {j \in 1..Len(value.v) : value.v[j] # Null}}
                  IN  IF Len(value.v) = 0 THEN ListOf(AnyT)
                      ELSE IF dicts # <<>>
                           THEN ListOf(create_dataclass_from_dict(
                                         get_common_structure(dicts)))
                      ELSE IF item_types = {} THEN ListOf(OptionalOf(AnyT))
                      ELSE IF Cardinality(item_types) = 1
                           THEN ListOf(CHOOSE t \in item_types : TRUE)
                      ELSE ListOf(AnyT)
        ELSE OptionalOf(type(value))
  IN  Class([key \in DOMAIN data.v |-> field_type(data.v[key])])

----------------------------------------------------------------------------
(* The copy of the two functions in templates_dummy_gen/generate.py.  Its
   classes carry the name they are created with: nested classes are named
   by the NAMES table, and by key.title() for a key the table lacks. *)

NAMES ==
  [structures |-> "Structure", attributes |-> "Attribute", indexes |-> "Index",
   index_attributes |-> "IndexAttribute", partitions |-> "Partition",
   partition_attributes |-> "PartitionAttribute", flows |-> "Flow",
   flowtasks |-> "FlowTask", flowtask_structures |-> "FlowTaskStructure",
   flowtransitions |-> "FlowTransition", flowtask_params |-> "FlowTaskParam",
   propvalues_json |-> "Properties"]

\* key.title() for the keys of the model
title(key) ==
  CASE key = "a" -> "A"
    [] key = "b" -> "B"
    [] key = "items" -> "Items"
    [] key = "flows" -> "Flows"
    [] OTHER -> key

\* nested_class_name = key.title() in generate_mongo.py
nested_class_name(key) == title(key)

\* NAMES.get(key, key.title())
tdg_nested_class_name(key) ==
  IF key \in DOMAIN NAMES THEN NAMES[key] ELSE title(key)

NamedClass(class_name, fields) == [k |-> "class", v |-> fields, name |-> class_name]

RECURSIVE tdg_get_common_structure(_)
tdg_get_common_structure(items) ==
  IF items = <<>> THEN D(<<>>)
  ELSE
    LET all_keys == UNION {DOMAIN items[i].v : i \in 1..Len(items)}
        common(key) ==
          LET values == values_of(items, key)
              non_null_values == SelectSeq(values, LAMBDA x : x # Null)
              dicts == SelectSeq(non_null_values, isdict)
              list_samples ==
                SelectSeq(non_null_values, LAMBDA x : islist(x) /\ x.v # <<>>)
          IN  IF Len(values) < Len(items) THEN Null
              ELSE IF non_null_values = <<>> THEN Null
              ELSE IF any_of(non_null_values, isdict)
                   THEN tdg_get_common_structure(dicts)
              ELSE IF any_of(non_null_values, islist)
                   THEN IF list_samples # <<>>
                        THEN L(<<list_samples[1].v[1]>>)
                        ELSE L(<<>>)
              ELSE non_null_values[1]
    IN  D([key \in all_keys |-> common(key)])

RECURSIVE tdg_create_dataclass_from_dict(_, _)
tdg_create_dataclass_from_dict(class_name, data) ==
  LET field_type(key, value) ==
        IF value = Null THEN OptionalOf(AnyT)
        ELSE IF isdict(value)
             THEN OptionalOf(tdg_create_dataclass_from_dict(
                               tdg_nested_class_name(key), value))
        ELSE IF islist(value)
             THEN LET dicts == SelectSeq(value.v, isdict)
                      item_types ==
                        {type(value.v[i]) :
                           i \in {j \in 1..Len(value.v) : value.v[j] # Null}}
                  IN  IF Len(value.v) = 0 THEN ListOf(AnyT)
                      ELSE IF dicts # <<>>
                           THEN ListOf(tdg_create_dataclass_from_dict(
                                         tdg_nested_class_name(key),
                                         tdg_get_common_structure(dicts)))
                      ELSE IF item_types = {} THEN ListOf(OptionalOf(AnyT))
                      ELSE IF Cardinality(item_types) = 1
                           THEN ListOf(CHOOSE t \in item_types : TRUE)
                      ELSE ListOf(AnyT)
        ELSE OptionalOf(type(value))
  IN  NamedClass(class_name,
                 [key \in DOMAIN data.v |-> field_type(key, data.v[key])])

----------------------------------------------------------------------------
(* from_dict(cls, data, config) of main: dacite's from_dict under          *)
(* Config(type_hooks, strict=False, check_types=False,                     *)
(* cast=[int, float, str, bool]).  A bound dataclass instance is           *)
(* [k |-> "obj", v |-> field values]; a raised exception is                *)
(* [k |-> "raise", v |-> the exception classes that can be the one         *)
(* raised] (the fields of a class built from a set of keys are visited in  *)
(* an order the model does not fix).  Strings of the model have one        *)
(* character, so iterating a string yields the string itself and           *)
(* `name in string` is equality.                                           *)

B(b) == [k |-> "bool", v |-> b]
Obj(f) == [k |-> "obj", v |-> f]
Raise(e) == [k |-> "raise", v |-> {e}]
israise(x) == x.k = "raise"

\* the first exception of a list comprehension, else the list
seq_result(rs) ==
  IF \E i \in 1..Len(rs) : israise(rs[i])
  THEN rs[CHOOSE i \in 1..Len(rs) :
            israise(rs[i]) /\ \A j \in 1..(i - 1) : ~israise(rs[j])]
  ELSE L(rs)

\* an exception of one of the fields, else the instance
fields_result(f) ==
  IF \E n \in DOMAIN f : israise(f[n])
  THEN [k |-> "raise",
        v |-> UNION {f[n].v : n \in {m \in DOMAIN f : israise(f[m])}}]
  ELSE Obj(f)

Digits == 0..9

\* int(x), the first entry of Config.cast
cast_int(x) ==
  CASE x.k = "int"  -> x
    [] x.k = "bool" -> I(IF x.v THEN 1 ELSE 0)
    [] x.k = "str"  -> IF \E n \in Digits : ToString(n) = x.v
                       THEN I(CHOOSE n \in Digits : ToString(n) = x.v)
                       ELSE Raise("ValueError")
    [] OTHER        -> Raise("TypeError")

RECURSIVE repr(_)
repr(x) ==
  LET RECURSIVE join(_, _)
      join(s, i) ==
        IF i > Len(s) THEN ""
        ELSE (IF i > 1 THEN ", " ELSE "") \o repr(s[i]) \o join(s, i + 1)
  IN  CASE x.k = "null" -> "None"
        [] x.k = "int"  -> ToString(x.v)
        [] x.k = "bool" -> IF x.v THEN "True" ELSE "False"
        [] x.k = "str"  -> "'" \o x.v \o "'"
        [] x.k = "list" -> "[" \o join(x.v, 1) \o "]"
        [] OTHER        -> "<" \o x.k \o ">"

\* str(x), the third entry of Config.cast
cast_str(x) == IF x.k = "str" THEN x ELSE S(repr(x))

\* bool(x): is_subclass(bool, int) holds, so the cast applied is type_(data)
cast_bool(x) ==
  CASE x.k = "null" -> B(FALSE)
    [] x.k = "bool" -> x
    [] x.k = "int"  -> B(x.v # 0)
    [] x.k = "str"  -> B(x.v # "")
    [] x.k = "list" -> B(x.v # <<>>)
    [] x.k = "dict" -> B(DOMAIN x.v # {})
    [] OTHER        -> B(TRUE)

RECURSIVE from_dict(_, _, _)
RECURSIVE build_value(_, _, _)

\* hooks[field_type] = lambda v, t=inner_cls: [from_dict(t, item, config) for item in v]
type_hook(t, v) ==
  CASE v.k = "list" -> seq_result(Map(v.v, LAMBDA item : from_dict(t, item, TRUE)))
    [] v.k = "str"  -> seq_result(<<from_dict(t, v, TRUE)>>)
    [] v.k \in {"null", "int", "bool"} -> Raise("TypeError")

\* _build_value_for_collection for a List[...] annotation
build_value_for_collection(t, data) ==
  CASE data.k = "list" ->
         seq_result(Map(data.v, LAMBDA item : build_value(t.v, item, FALSE)))
    [] data.k = "str" -> S("<generator object>")
    [] data.k = "dict" /\ DOMAIN data.v = {} -> data
    [] data.k \in {"null", "int", "bool", "obj"} -> data

\* _build_value; walked: the class holding the field was visited by walk_fields
build_value(t, data, walked) ==
  LET hooked == walked /\ t.k = "List" /\ t.v.k = "class"
      d1 == IF hooked THEN type_hook(t.v, data) ELSE data
      d2 == IF t.k = "Optional" THEN build_value(t.v, d1, FALSE)
            ELSE IF t.k = "List" THEN build_value_for_collection(t, d1)
            ELSE IF t.k = "class" /\ isdict(d1) THEN from_dict(t, d1, FALSE)
            ELSE d1
  IN  IF israise(d1) THEN d1
      ELSE IF t.k = "Optional" /\ d1 = Null THEN Null
      ELSE IF israise(d2) THEN d2
      ELSE IF t.k = "int" THEN cast_int(d2)
      ELSE IF t.k = "str" THEN cast_str(d2)
      ELSE IF t.k = "bool" THEN cast_bool(d2)
      ELSE d2

\* from_dict under Config(strict=True): keys of data that are no field raise
from_dict_strict(cls, data, walked) ==
  LET names == DOMAIN cls.v
      has(n) == CASE data.k = "dict" -> n \in DOMAIN data.v
                  [] data.k = "list" -> \E i \in 1..Len(data.v) : data.v[i] = S(n)
                  [] data.k = "str"  -> data.v = n
      value(n) ==
        IF has(n)
        THEN IF isdict(data)
             THEN build_value(cls.v[n], data.v[n], walked)
             ELSE Raise("TypeError")
        ELSE IF cls.v[n].k = "Optional" THEN Null
        ELSE Raise("MissingValueError")
  IN  IF isdict(data) /\ DOMAIN data.v \ names # {} THEN Raise("UnexpectedDataError")
      ELSE IF names = {} THEN Obj(<<>>)
      ELSE IF data.k \in {"null", "int", "bool"} THEN Raise("TypeError")
      ELSE fields_result([n \in names |-> value(n)])

\* from_dict(data_class, data, config)
from_dict(cls, data, walked) ==
  LET names == DOMAIN cls.v
      \* field.name in data
      has(n) == CASE data.k = "dict" -> n \in DOMAIN data.v
                  [] data.k = "list" -> \E i \in 1..Len(data.v) : data.v[i] = S(n)
                  [] data.k = "str"  -> data.v = n
      value(n) ==
        IF has(n)
        THEN IF isdict(data)
             THEN build_value(cls.v[n], data.v[n], walked)
             ELSE Raise("TypeError")
        ELSE IF cls.v[n].k = "Optional" THEN Null
        ELSE Raise("MissingValueError")
  IN  IF names = {} THEN Obj(<<>>)
      ELSE IF data.k \in {"null", "int", "bool"} THEN Raise("TypeError")
      ELSE fields_result([n \in names |-> value(n)])

\* the fields from_dict raises MissingValueError(field.name) for
missing_value_errors(cls, d) ==
  {n \in DOMAIN cls.v : n \notin DOMAIN d.v /\ cls.v[n].k # "Optional"}

\* the bound value as plain JSON: an instance becomes the dict of its fields
RECURSIVE as_json(_)
as_json(x) ==
  CASE x.k = "obj"  -> D([n \in DOMAIN x.v |-> as_json(x.v[n])])
    [] x.k = "list" -> L(Map(x.v, as_json))
    [] OTHER        -> x

\* str() of a generator object names the address of the object: the value
\* with every such string taken at another address
RECURSIVE at_other_address(_)
at_other_address(x) ==
  CASE x.k = "obj"  -> Obj([n \in DOMAIN x.v |-> at_other_address(x.v[n])])
    [] x.k = "list" -> L(Map(x.v, at_other_address))
    [] x = S("<generator object>") -> S("<generator object at another address>")
    [] OTHER        -> x

----------------------------------------------------------------------------
(* The documents: main reads the root document `data`, builds the class    *)
(* from it and binds a document against the class.  The root document of   *)
(* the model has one field, "items", holding the list of sample records;   *)
(* create_dataclass_from_dict passes that list to get_common_structure.    *)

MaxSamples == 2

\* values of field "a" of a sample record
FieldValues ==
  { Null, I(1), S("x"),
    L(<<>>), L(<<S("x")>>), L(<<I(1), S("x")>>),
    L(<<D([a |-> I(1)]), D([b |-> S("x")])>>),
    D([a |-> I(1)]), D([b |-> S("x")]) }

Samples ==
  {D(<<>>), D([b |-> S("x")])}
    \cup {D([a |-> x]) : x \in FieldValues}
    \cup {D([a |-> x, b |-> S("x")]) : x \in FieldValues}

SampleLists == UNION {[1..n -> Samples] : n \in 0..MaxSamples}

root(its) == D([items |-> L(its)])

\* documents bound against the class: the root document itself, each sample
\* alone, and documents that do not fit the class
Documents(its) ==
  {root(its)}
    \cup {root(<<its[i]>>) : i \in 1..Len(its)}
    \cup {D(<<>>), D([items |-> Null]), D([items |-> I(1)]),
          D([items |-> L(<<I(1)>>)]), D([items |-> L(<<D([a |-> S("x")])>>)])}

VARIABLES
  items,    \* the sample records, data["items"]
  pc,       \* position in main
  common,   \* get_common_structure(items), the dict the item class is built from
  cls,      \* WorkflowClass
  merged,   \* result of merge_dicts
  doc,      \* the document handed to from_dict
  workflow, \* result of from_dict
  rebound,  \* result of from_dict on the bound value converted back to JSON
  missing_fields, \* result of validate_metamodel
  error,    \* the exception main raised after validation
  heap,     \* the objects in memory: dicts and lists holding references
  result,   \* reference to the object the last call returned
  stack,    \* the calls in progress, the latest last
  args,     \* the command line and what main finds in the file system
  meta,     \* the MetaModel loaded from the metamodel file
  file,     \* the output file
  returned  \* what the last method call returned

vars == <<items, pc, common, cls, merged, doc, workflow, rebound,
          missing_fields, error, heap, result, stack, args, meta, file,
          returned>>

data == root(items)

Init ==
  /\ items \in SampleLists
  /\ pc = "start"
  /\ common = Null
  /\ cls = Null
  /\ merged = Null
  /\ doc = Null
  /\ workflow = Null
  /\ rebound = Null
  /\ missing_fields = <<>>
  /\ error = Null
  /\ heap = <<>>
  /\ result = Null
  /\ stack = <<>> /\ args = Null /\ meta = Null /\ file = Null /\ returned = Null

\* merge_dicts(get_common_structure(A), get_common_structure(B)) for a split
\* items = A ++ B into two non-empty groups
MergeDicts(i) ==
  /\ pc = "start"
  /\ i \in 1..(Len(items) - 1)
  /\ merged' = merge_dicts(get_common_structure(SubSeq(items, 1, i)),
                           get_common_structure(SubSeq(items, i + 1, Len(items))))
  /\ pc' = "merged"
  /\ UNCHANGED <<items, common, cls, doc, workflow, rebound>>
  /\ UNCHANGED <<missing_fields, error, heap, result>>
  /\ UNCHANGED <<stack, args, meta, file, returned>>

\* WorkflowClass = create_dataclass_from_dict("Workflow", data)
CreateDataclass ==
  /\ pc = "start"
  /\ common' = get_common_structure(items)
  /\ cls' = create_dataclass_from_dict(data)
  /\ pc' = "class"
  /\ UNCHANGED <<items, merged, doc, workflow, rebound>>
  /\ UNCHANGED <<missing_fields, error, heap, result>>
  /\ UNCHANGED <<stack, args, meta, file, returned>>

\* workflow = from_dict(WorkflowClass, data, config=config)
FromDict(d) ==
  /\ pc = "class"
  /\ doc' = d
  /\ workflow' = from_dict(cls, d, TRUE)
  /\ pc' = IF israise(workflow') THEN "failed" ELSE "bound"
  /\ UNCHANGED <<items, common, cls, merged, rebound>>
  /\ UNCHANGED <<missing_fields, error, heap, result>>
  /\ UNCHANGED <<stack, args, meta, file, returned>>

\* from_dict(WorkflowClass, as_json(workflow), config=config); same_address:
\* the generator objects of this call lie at the addresses of the first call
Rebind(same_address) ==
  /\ pc = "bound"
  /\ rebound' = LET r == from_dict(cls, as_json(workflow), TRUE)
                IN  IF same_address THEN r ELSE at_other_address(r)
  /\ pc' = IF israise(rebound') THEN "refailed" ELSE "rebound"
  /\ UNCHANGED <<items, common, cls, merged, doc, workflow>>
  /\ UNCHANGED <<missing_fields, error, heap, result>>
  /\ UNCHANGED <<stack, args, meta, file, returned>>

Next ==
  \/ \E i \in 1..MaxSamples : MergeDicts(i)
  \/ CreateDataclass
  \/ \E d \in Documents(items) : FromDict(d)
  \/ \E same_address \in BOOLEAN : Rebind(same_address)

Spec == Init /\ [][Next]_vars

----------------------------------------------------------------------------
(* Validation of the bound workflow: main, after from_dict succeeded. *)

required_fields ==
  << "propvalues_json.cdcf.source_type",
     "propvalues_json.cdcf.data_provider_uuid",
     "propvalues_json.cdcf.kafka_connection_uuid",
     "propvalues_json.cdcf.topic_prefix",
     "propvalues_json.cdcf.topic_postfix",
     "propvalues_json.cdcf.debezium.snapshot_mode" >>

\* field_path.split(".")
split(field_path) ==
  LET parts == << <<"propvalues_json", "cdcf", "source_type">>,
                  <<"propvalues_json", "cdcf", "data_provider_uuid">>,
                  <<"propvalues_json", "cdcf", "kafka_connection_uuid">>,
                  <<"propvalues_json", "cdcf", "topic_prefix">>,
                  <<"propvalues_json", "cdcf", "topic_postfix">>,
                  <<"propvalues_json", "cdcf", "debezium", "snapshot_mode">> >>
  IN  parts[CHOOSE i \in 1..Len(required_fields) : required_fields[i] = field_path]

\* getattr(value, part): instances of the generated classes have attributes,
\* raw dicts, strings and numbers have none of these names
getattr(value, part) ==
  IF value.k = "obj" /\ part \in DOMAIN value.v
  THEN value.v[part]
  ELSE Raise("AttributeError")

\* validate_metamodel without the break after a None value
validate_metamodel_no_break(workflow_) ==
  LET RECURSIVE appended(_, _, _)
      appended(value, field_path, i) ==
        IF i > Len(split(field_path)) THEN <<>>
        ELSE LET v == getattr(value, split(field_path)[i])
             IN  IF israise(v) THEN <<field_path>>
                 ELSE IF v = Null
                      THEN <<field_path>> \o appended(v, field_path, i + 1)
                 ELSE appended(v, field_path, i + 1)
      RECURSIVE loop(_)
      loop(n) ==
        IF n = 0 THEN <<>>
        ELSE loop(n - 1) \o appended(workflow_, required_fields[n], 1)
  IN  loop(Len(required_fields))

\* validate_metamodel(workflow): what the loop appends to missing
validate_metamodel(workflow_) ==
  LET RECURSIVE appended(_, _, _)
      appended(value, field_path, i) ==
        IF i > Len(split(field_path)) THEN <<>>
        ELSE LET v == getattr(value, split(field_path)[i])
             IN  IF israise(v) THEN <<field_path>>
                 ELSE IF v = Null THEN <<field_path>>
                 ELSE appended(v, field_path, i + 1)
      RECURSIVE loop(_)
      loop(n) ==
        IF n = 0 THEN <<>>
        ELSE loop(n - 1) \o appended(workflow_, required_fields[n], 1)
  IN  loop(Len(required_fields))

\* the bound workflows main can hand to validate_metamodel: every attribute
\* of the six paths absent, None, empty or set, and the objects on the way
\* absent, None, a string, a raw dict or an instance
cdcf_names ==
  {"source_type", "data_provider_uuid", "kafka_connection_uuid",
   "topic_prefix", "topic_postfix"}

Debeziums ==
  {Null, Obj(<<>>), Obj([snapshot_mode |-> Null]),
   Obj([snapshot_mode |-> S("no_data")]), D([snapshot_mode |-> S("no_data")])}

Cdcfs ==
  LET leaves == UNION {[names -> {Null, S(""), S("mongo")}] : names \in SUBSET cdcf_names}
  IN  {Obj(f) : f \in leaves}
      \cup {Obj([n \in DOMAIN f \cup {"debezium"} |->
                   IF n = "debezium" THEN d ELSE f[n]]) :
              f \in leaves, d \in Debeziums}

Workflows ==
  {Obj(<<>>), Obj([propvalues_json |-> Null]), Obj([propvalues_json |-> S("x")]),
   Obj([propvalues_json |-> D([cdcf |-> D([source_type |-> S("mongo")])])]),
   Obj([propvalues_json |-> Obj(<<>>)]),
   Obj([propvalues_json |-> Obj([cdcf |-> Null])]),
   Obj([propvalues_json |-> Obj([cdcf |-> D([source_type |-> S("mongo")])])])}
  \cup {Obj([propvalues_json |-> Obj([cdcf |-> c])]) : c \in Cdcfs}

InitValidate ==
  /\ workflow \in Workflows
  /\ pc = "bound"
  /\ missing_fields = <<>>
  /\ error = Null
  /\ items = <<>> /\ common = Null /\ cls = Null /\ merged = Null
  /\ doc = Null /\ rebound = Null /\ heap = <<>> /\ result = Null
  /\ stack = <<>> /\ args = Null /\ meta = Null /\ file = Null /\ returned = Null

\* missing_fields = validate_metamodel(workflow)
ValidateMetamodel ==
  /\ pc = "bound"
  /\ missing_fields' = validate_metamodel(workflow)
  /\ pc' = "validated"
  /\ UNCHANGED <<items, common, cls, merged, doc, workflow, rebound>>
  /\ UNCHANGED <<error, heap, result>>
  /\ UNCHANGED <<stack, args, meta, file, returned>>

\* if missing_fields: raise MissingRequiredFieldError(missing_fields)
RaiseMissingRequiredFieldError ==
  /\ pc = "validated"
  /\ missing_fields # <<>>
  /\ error' = [k |-> "raise", v |-> {"MissingRequiredFieldError"},
               missing_fields |-> missing_fields]
  /\ pc' = "raised"
  /\ UNCHANGED <<items, common, cls, merged, doc, workflow, rebound>>
  /\ UNCHANGED <<missing_fields, heap, result>>
  /\ UNCHANGED <<stack, args, meta, file, returned>>

\* the validation passed: main goes on to print the workflow
PrintWorkflow ==
  /\ pc = "validated"
  /\ missing_fields = <<>>
  /\ pc' = "printed"
  /\ UNCHANGED <<items, common, cls, merged, doc, workflow, rebound>>
  /\ UNCHANGED <<missing_fields, error, heap, result>>
  /\ UNCHANGED <<stack, args, meta, file, returned>>

NextValidate ==
  \/ ValidateMetamodel
  \/ RaiseMissingRequiredFieldError
  \/ PrintWorkflow

SpecValidate == InitValidate /\ [][NextValidate]_vars

----------------------------------------------------------------------------
(* Inference called with any JSON values as samples. *)

\* get_common_structure(items) for samples that need not be dicts: the loop
\* over the samples calls item.keys(), which only a dict has
get_common_structure_of_values(items_) ==
  IF \E i \in 1..Len(items_) : ~isdict(items_[i])
  THEN Raise("AttributeError")
  ELSE get_common_structure(items_)

SampleValues == Samples \cup {I(1), S("x"), L(<<>>), L(<<I(1)>>)}

ValueLists == UNION {[1..n -> SampleValues] : n \in 1..MaxSamples}

InitInfer ==
  /\ items \in ValueLists
  /\ pc = "start"
  /\ common = Null /\ cls = Null /\ merged = Null
  /\ doc = Null /\ workflow = Null /\ rebound = Null
  /\ missing_fields = <<>> /\ error = Null /\ heap = <<>> /\ result = Null
  /\ stack = <<>> /\ args = Null /\ meta = Null /\ file = Null /\ returned = Null

\* common = get_common_structure(items)
GetCommonStructure ==
  /\ pc = "start"
  /\ common' = get_common_structure_of_values(items)
  /\ pc' = IF israise(common') THEN "failed" ELSE "common"
  /\ UNCHANGED <<items, cls, merged, doc, workflow, rebound>>
  /\ UNCHANGED <<missing_fields, error, heap, result>>
  /\ UNCHANGED <<stack, args, meta, file, returned>>

\* create_dataclass_from_dict(class_name, common)
CreateDataclassFromCommon ==
  /\ pc = "common"
  /\ cls' = create_dataclass_from_dict(common)
  /\ pc' = "class"
  /\ UNCHANGED <<items, common, merged, doc, workflow, rebound>>
  /\ UNCHANGED <<missing_fields, error, heap, result>>
  /\ UNCHANGED <<stack, args, meta, file, returned>>

NextInfer ==
  \/ GetCommonStructure
  \/ CreateDataclassFromCommon

SpecInfer == InitInfer /\ [][NextInfer]_vars

----------------------------------------------------------------------------
(* The same functions on objects in memory.  A dict or a list is an object
   of the heap; its entries are scalars or references to other objects, so
   that an assignment through one reference is seen through every other. *)

Ref(addr) == [k |-> "ref", v |-> addr]
isdictref(h, c) == c.k = "ref" /\ h[c.v].k = "dict"
islistref(h, c) == c.k = "ref" /\ h[c.v].k = "list"

RECURSIVE SetToSeq(_)
SetToSeq(set) ==
  IF set = {} THEN <<>>
  ELSE LET x == CHOOSE x \in set : TRUE IN <<x>> \o SetToSeq(set \ {x})

\* the JSON value x built in memory: the heap after it and the reference to it
RECURSIVE alloc(_, _)
RECURSIVE alloc_seq(_, _)
alloc_seq(h, xs) ==
  IF xs = <<>> THEN [heap |-> h, cells |-> <<>>]
  ELSE LET first == alloc(h, Head(xs))
           rest == alloc_seq(first.heap, Tail(xs))
       IN  [heap |-> rest.heap, cells |-> <<first.cell>> \o rest.cells]

alloc(h, x) ==
  IF x.k = "dict"
  THEN LET keys == SetToSeq(DOMAIN x.v)
           r == alloc_seq(h, [i \in 1..Len(keys) |-> x.v[keys[i]]])
           object == [k |-> "dict",
                      v |-> [n \in DOMAIN x.v |->
                               r.cells[CHOOSE i \in 1..Len(keys) : keys[i] = n]]]
       IN  [heap |-> Append(r.heap, object), cell |-> Ref(Len(r.heap) + 1)]
  ELSE IF x.k = "list"
  THEN LET r == alloc_seq(h, x.v)
       IN  [heap |-> Append(r.heap, [k |-> "list", v |-> r.cells]),
            cell |-> Ref(Len(r.heap) + 1)]
  ELSE [heap |-> h, cell |-> x]

\* the JSON value a cell stands for
RECURSIVE deref(_, _)
deref(h, c) ==
  IF c.k # "ref" THEN c
  ELSE IF h[c.v].k = "dict"
       THEN D([n \in DOMAIN h[c.v].v |-> deref(h, h[c.v].v[n])])
       ELSE L([i \in 1..Len(h[c.v].v) |-> deref(h, h[c.v].v[i])])

\* d[key] = cell for the dict at addr
store(h, addr, key, cell) ==
  [h EXCEPT ![addr] =
     [k |-> "dict",
      v |-> [n \in DOMAIN @.v \cup {key} |-> IF n = key THEN cell ELSE @.v[n]]]]

\* merge_dicts with result = a in place of result = a.copy()
RECURSIVE merge_dicts_on_heap_no_copy(_, _, _)
merge_dicts_on_heap_no_copy(h, a, b) ==
  LET result_ == a
      RECURSIVE loop(_, _)
      loop(hh, keys) ==
        IF keys = <<>> THEN hh
        ELSE LET key == Head(keys)
                 v == hh[b.v].v[key]
                 res == hh[result_.v].v
             IN  loop(IF key \in DOMAIN res /\ isdictref(hh, res[key]) /\ isdictref(hh, v)
                      THEN LET m == merge_dicts_on_heap_no_copy(hh, res[key], v)
                           IN  store(m.heap, result_.v, key, m.cell)
                      ELSE store(hh, result_.v, key, v),
                      Tail(keys))
  IN  [heap |-> loop(h, SetToSeq(DOMAIN h[b.v].v)), cell |-> result_]

\* merge_dicts(a, b) for references a, b to dicts: the heap after the call
\* and the reference it returns
RECURSIVE merge_dicts_on_heap(_, _, _)
merge_dicts_on_heap(h, a, b) ==
  LET result_ == Ref(Len(h) + 1)
      RECURSIVE loop(_, _)
      loop(hh, keys) ==
        IF keys = <<>> THEN hh
        ELSE LET key == Head(keys)
                 v == hh[b.v].v[key]
                 res == hh[result_.v].v
             IN  loop(IF key \in DOMAIN res /\ isdictref(hh, res[key]) /\ isdictref(hh, v)
                      THEN LET m == merge_dicts_on_heap(hh, res[key], v)
                           IN  store(m.heap, result_.v, key, m.cell)
                      ELSE store(hh, result_.v, key, v),
                      Tail(keys))
  IN  [heap |-> loop(Append(h, h[a.v]), SetToSeq(DOMAIN h[b.v].v)),
       cell |-> result_]

\* get_common_structure(items) for a list of references to dicts
RECURSIVE get_common_structure_on_heap(_, _)
get_common_structure_on_heap(h, items_) ==
  IF items_ = <<>>
  THEN [heap |-> Append(h, [k |-> "dict", v |-> <<>>]), cell |-> Ref(Len(h) + 1)]
  ELSE
    LET common_ == Ref(Len(h) + 1)
        all_keys == UNION {DOMAIN h[items_[i].v].v : i \in 1..Len(items_)}
        RECURSIVE loop(_, _)
        loop(hh, keys) ==
          IF keys = <<>> THEN hh
          ELSE
            LET key == Head(keys)
                with_key == SelectSeq(items_, LAMBDA item : key \in DOMAIN hh[item.v].v)
                values == [i \in 1..Len(with_key) |-> hh[with_key[i].v].v[key]]
                non_null_values == SelectSeq(values, LAMBDA x : x # Null)
                dicts == SelectSeq(non_null_values, LAMBDA x : isdictref(hh, x))
                list_samples ==
                  SelectSeq(non_null_values,
                            LAMBDA x : islistref(hh, x) /\ hh[x.v].v # <<>>)
                new_list(elements) == Append(hh, [k |-> "list", v |-> elements])
            IN  loop(IF Len(values) < Len(items_)
                     THEN store(hh, common_.v, key, Null)
                     ELSE IF non_null_values = <<>>
                     THEN store(hh, common_.v, key, Null)
                     ELSE IF dicts # <<>>
                     THEN LET m == get_common_structure_on_heap(hh, dicts)
                          IN  store(m.heap, common_.v, key, m.cell)
                     ELSE IF \E i \in 1..Len(non_null_values) :
                                islistref(hh, non_null_values[i])
                     THEN IF list_samples # <<>>
                          THEN store(new_list(<<hh[list_samples[1].v].v[1]>>),
                                     common_.v, key, Ref(Len(hh) + 1))
                          ELSE store(new_list(<<>>), common_.v, key, Ref(Len(hh) + 1))
                     ELSE store(hh, common_.v, key, non_null_values[1]),
                     Tail(keys))
    IN  [heap |-> loop(Append(h, [k |-> "dict", v |-> <<>>]), SetToSeq(all_keys)),
         cell |-> common_]

\* the heap after create_dataclass_from_dict(class_name, data): the class is
\* built from types, the dicts it makes on the way are those of
\* get_common_structure
RECURSIVE create_dataclass_from_dict_on_heap(_, _)
create_dataclass_from_dict_on_heap(h, data_) ==
  LET RECURSIVE loop(_, _)
      loop(hh, keys) ==
        IF keys = <<>> THEN hh
        ELSE
          LET value == hh[data_.v].v[Head(keys)]
              dicts == SelectSeq(hh[value.v].v, LAMBDA item : isdictref(hh, item))
          IN  loop(IF isdictref(hh, value)
                   THEN create_dataclass_from_dict_on_heap(hh, value)
                   ELSE IF islistref(hh, value) /\ dicts # <<>>
                   THEN LET m == get_common_structure_on_heap(hh, dicts)
                        IN  create_dataclass_from_dict_on_heap(m.heap, m.cell)
                   ELSE hh,
                   Tail(keys))
  IN  loop(h, SetToSeq(DOMAIN h[data_.v].v))

\* the root document in memory before any call
loaded == alloc(<<>>, data)
samples == heap[loaded.cell.v].v["items"]
dict_cells ==
  {heap[samples.v].v[i] : i \in 1..Len(items)}
    \cup (IF result.k = "ref" THEN {result} ELSE {})

InitHeap ==
  /\ items \in SampleLists
  /\ heap = loaded.heap
  /\ result = Null
  /\ pc = "start"
  /\ common = Null /\ cls = Null /\ merged = Null
  /\ doc = Null /\ workflow = Null /\ rebound = Null
  /\ missing_fields = <<>> /\ error = Null
  /\ stack = <<>> /\ args = Null /\ meta = Null /\ file = Null /\ returned = Null

\* result = merge_dicts(a, b) for two of the samples, which may be the same
\* object, or for the result of the call before and a sample
MergeDictsOnHeap(a, b) ==
  /\ pc = "start" \/ (pc = "called" /\ a = result)
  /\ LET m == merge_dicts_on_heap(heap, a, b)
     IN  heap' = m.heap /\ result' = m.cell
  /\ merged' = deref(heap', result')
  /\ pc' = IF pc = "start" THEN "called" ELSE "done"
  /\ UNCHANGED <<items, common, cls, doc, workflow, rebound, missing_fields, error>>
  /\ UNCHANGED <<stack, args, meta, file, returned>>

\* result = get_common_structure(items) for the list of samples
GetCommonStructureOnHeap ==
  /\ pc = "start"
  /\ LET m == get_common_structure_on_heap(heap, heap[samples.v].v)
     IN  heap' = m.heap /\ result' = m.cell
  /\ common' = deref(heap', result')
  /\ pc' = "done"
  /\ UNCHANGED <<items, cls, merged, doc, workflow, rebound, missing_fields, error>>
  /\ UNCHANGED <<stack, args, meta, file, returned>>

\* create_dataclass_from_dict("Workflow", data) for the root document
CreateDataclassOnHeap ==
  /\ pc = "start"
  /\ heap' = create_dataclass_from_dict_on_heap(heap, loaded.cell)
  /\ cls' = create_dataclass_from_dict(deref(heap, loaded.cell))
  /\ pc' = "done"
  /\ UNCHANGED <<items, common, merged, doc, workflow, rebound, missing_fields,
                 error, result>>
  /\ UNCHANGED <<stack, args, meta, file, returned>>

NextHeap ==
  \/ \E a, b \in dict_cells : MergeDictsOnHeap(a, b)
  \/ GetCommonStructureOnHeap
  \/ CreateDataclassOnHeap

SpecHeap == InitHeap /\ [][NextHeap]_vars

----------------------------------------------------------------------------
(* The recursion of get_common_structure and create_dataclass_from_dict as
   calls and returns: a frame is a call in progress with the calls it has
   still to make. *)

Max(set) == CHOOSE m \in set : \A n \in set : n <= m

\* nesting depth of a JSON value: 0 for a scalar, one more than its deepest
\* entry for a dict or a list
RECURSIVE nesting_depth(_)
nesting_depth(x) ==
  IF x.k = "dict" THEN 1 + Max({nesting_depth(x.v[n]) : n \in DOMAIN x.v} \cup {0})
  ELSE IF x.k = "list" THEN 1 + Max({nesting_depth(x.v[i]) : i \in 1..Len(x.v)} \cup {0})
  ELSE 0

RECURSIVE flatten(_)
flatten(seqs) == IF seqs = <<>> THEN <<>> ELSE Head(seqs) \o flatten(Tail(seqs))

Call(fn, arg) == [fn |-> fn, arg |-> arg]

\* calls with create_dataclass_from_dict calling itself on the list value in
\* place of the common structure of its dicts
calls_on_list(fn, arg) ==
  IF fn = "get_common_structure"
  THEN LET keys == SetToSeq(UNION {DOMAIN arg.v[i].v : i \in 1..Len(arg.v)})
           dicts(key) == SelectSeq(SelectSeq(values_of(arg.v, key),
                                             LAMBDA x : x # Null), isdict)
       IN  flatten([j \in 1..Len(keys) |->
             IF Len(values_of(arg.v, keys[j])) = Len(arg.v) /\ dicts(keys[j]) # <<>>
             THEN <<Call("get_common_structure", L(dicts(keys[j])))>>
             ELSE <<>>])
  ELSE LET keys == SetToSeq(DOMAIN arg.v)
           dicts(value) == SelectSeq(value.v, isdict)
       IN  flatten([j \in 1..Len(keys) |->
             LET value == arg.v[keys[j]]
             IN  IF isdict(value)
                 THEN <<Call("create_dataclass_from_dict", value)>>
                 ELSE IF islist(value) /\ dicts(value) # <<>>
                 THEN <<Call("get_common_structure", L(dicts(value))),
                        Call("create_dataclass_from_dict", D([item |-> value]))>>
                 ELSE <<>>])

\* the calls of the two functions that the body of fn(arg) makes, in order:
\* get_common_structure(dicts) for a key of every item with a dict among its
\* values; create_dataclass_from_dict(value) for a dict value, and
\* get_common_structure(dicts) followed by
\* create_dataclass_from_dict(common_dict) for a list with dicts
calls(fn, arg) ==
  IF fn = "get_common_structure"
  THEN LET keys == SetToSeq(UNION {DOMAIN arg.v[i].v : i \in 1..Len(arg.v)})
           dicts(key) == SelectSeq(SelectSeq(values_of(arg.v, key),
                                             LAMBDA x : x # Null), isdict)
       IN  flatten([j \in 1..Len(keys) |->
             IF Len(values_of(arg.v, keys[j])) = Len(arg.v) /\ dicts(keys[j]) # <<>>
             THEN <<Call("get_common_structure", L(dicts(keys[j])))>>
             ELSE <<>>])
  ELSE LET keys == SetToSeq(DOMAIN arg.v)
           dicts(value) == SelectSeq(value.v, isdict)
       IN  flatten([j \in 1..Len(keys) |->
             LET value == arg.v[keys[j]]
             IN  IF isdict(value)
                 THEN <<Call("create_dataclass_from_dict", value)>>
                 ELSE IF islist(value) /\ dicts(value) # <<>>
                 THEN <<Call("get_common_structure", L(dicts(value))),
                        Call("create_dataclass_from_dict",
                             get_common_structure(dicts(value)))>>
                 ELSE <<>>])

Frame(fn, arg) == [fn |-> fn, arg |-> arg, todo |-> calls(fn, arg)]

top == stack[Len(stack)]

InitRecursion ==
  /\ items \in SampleLists
  /\ stack = <<Frame("create_dataclass_from_dict", data)>>
  /\ pc = "running"
  /\ common = Null /\ cls = Null /\ merged = Null
  /\ doc = Null /\ workflow = Null /\ rebound = Null
  /\ missing_fields = <<>> /\ error = Null /\ heap = <<>> /\ result = Null
  /\ args = Null /\ meta = Null /\ file = Null /\ returned = Null

\* the call on top makes its next call
EnterCall ==
  /\ pc = "running"
  /\ top.todo # <<>>
  /\ stack' = [stack EXCEPT ![Len(stack)].todo = Tail(@)]
                \o <<Frame(Head(top.todo).fn, Head(top.todo).arg)>>
  /\ UNCHANGED <<items, pc, common, cls, merged, doc, workflow, rebound>>
  /\ UNCHANGED <<missing_fields, error, heap, result, args, meta, file, returned>>

\* the call on top has made all its calls and returns
ReturnFromCall ==
  /\ pc = "running"
  /\ top.todo = <<>>
  /\ stack' = SubSeq(stack, 1, Len(stack) - 1)
  /\ pc' = IF Len(stack) = 1 THEN "returned" ELSE pc
  /\ cls' = IF Len(stack) = 1 THEN create_dataclass_from_dict(data) ELSE cls
  /\ UNCHANGED <<items, common, merged, doc, workflow, rebound>>
  /\ UNCHANGED <<missing_fields, error, heap, result, args, meta, file, returned>>

NextRecursion ==
  \/ EnterCall
  \/ ReturnFromCall

SpecRecursion ==
  InitRecursion /\ [][NextRecursion]_vars /\ WF_vars(NextRecursion)

----------------------------------------------------------------------------
(* main of generate_mongo.py, step by step, and the handler of __main__
   around it.  args holds the command line and what the run finds outside
   the program before it starts: the content of the metamodel file and the
   output file as it is before the run.  Whether the template loads and what
   rendering gives are drawn at the step.  file is the content of the output
   file, Null when there is none. *)

\* not x
falsy(x) == x \in {Null, B(FALSE), I(0), S(""), L(<<>>), D(<<>>)}

UUID == S("u")

FullCdcf ==
  [source_type |-> S("mongo"), data_provider_uuid |-> UUID,
   kafka_connection_uuid |-> UUID, topic_prefix |-> S("p"),
   topic_postfix |-> S("q"), debezium |-> D([snapshot_mode |-> S("no_data")])]

\* the "current" documents of the metamodel files
MainDocuments ==
  LET workflow_of(cdcf) ==
        D([workflow_pname |-> S("wf"), propvalues_json |-> D([cdcf |-> D(cdcf)])])
  IN  { workflow_of(FullCdcf),
        D([propvalues_json |-> D([cdcf |-> D(FullCdcf)])]),
        workflow_of([FullCdcf EXCEPT !.debezium = D([snapshot_mode |-> Null])]),
        workflow_of([n \in DOMAIN FullCdcf \ {"topic_prefix"} |-> FullCdcf[n]]),
        D([workflow_pname |-> S("wf")]),
        D([workflow_pname |-> S("wf"),
           propvalues_json |-> D([cdcf |-> D(FullCdcf)]),
           items |-> L(<<D([a |-> I(1)]), D([a |-> S("x")])>>)]) }

\* what open and json.load give for the metamodel file
RawData ==
  {Raise("FileNotFoundError"), Raise("JSONDecodeError"),
   D(<<>>), L(<<>>), L(<<I(1)>>), L(<<D(<<>>)>>),
   L(<<D([current |-> D(<<>>)])>>), L(<<D([current |-> S("x")])>>)}
    \cup {L(<<D([current |-> d])>>) : d \in MainDocuments}

\* a rendered text with a lone surrogate taken from a string of the metamodel
\* (json.load accepts "\ud800"); "<U+D800>" stands for that one character
SurrogateText == "{\"a\": \"<U+D800>\"}"

Texts == {"{}", "{\"a\": 1}", "{", "", SurrogateText}

\* json.loads(rendered) succeeds
is_json(text) == text \in {"{}", "{\"a\": 1}", SurrogateText}

\* text.encode('utf-8') succeeds
utf8_encodable(text) == text # SurrogateText

\* what template.render gives
Renderings ==
  {Raise("TemplateError"), Raise("Exception: Missing required field: x"),
   Raise("Exception")} \cup {S(t) : t \in Texts}

GENERATED_PATH == "src/generated/"

\* os.path.join(a, b) for a relative b
join(a, b) ==
  IF a = "" \/ SubSeq(a, Len(a), Len(a)) = "/" THEN a \o b ELSE a \o "/" \o b

\* os.path.dirname(path)
dirname(path) ==
  LET i == Max({j \in 1..Len(path) : SubSeq(path, j, j) = "/"} \cup {0})
      head == SubSeq(path, 1, i)
      RECURSIVE rstrip(_)
      rstrip(h) == IF h # "" /\ SubSeq(h, Len(h), Len(h)) = "/"
                   THEN rstrip(SubSeq(h, 1, Len(h) - 1)) ELSE h
  IN  IF rstrip(head) = "" THEN head ELSE rstrip(head)

MainArgs ==
  [raw_data : RawData, output_file : {Null, S("out/result.json"), S("result.json")},
   file : {Null, S("old")}]

InitMain ==
  /\ args \in MainArgs
  /\ file = args.file
  /\ pc = "main"
  /\ items = <<>> /\ common = Null /\ cls = Null /\ merged = Null
  /\ doc = Null /\ workflow = Null /\ rebound = Null
  /\ missing_fields = <<>> /\ error = Null /\ heap = <<>> /\ result = Null
  /\ stack = <<>> /\ meta = Null /\ returned = Null

\* with open(metadata_file) as f: raw_data = json.load(f), and the checks of
\* raw_data and data
LoadMetamodel ==
  /\ pc = "main"
  /\ LET raw_data == args.raw_data
         first == raw_data.v[1]
         current == IF "current" \in DOMAIN first.v THEN first.v["current"] ELSE Null
         raised ==
           IF israise(raw_data) THEN raw_data
           ELSE IF ~islist(raw_data) \/ Len(raw_data.v) = 0 THEN Raise("ValueError")
           ELSE IF ~isdict(first) THEN Raise("AttributeError")
           ELSE IF falsy(current) THEN Raise("ValueError")
           ELSE Null
     IN  /\ error' = raised
         /\ doc' = IF raised = Null THEN current ELSE doc
         /\ pc' = IF raised = Null THEN "loaded" ELSE "raised"
  /\ UNCHANGED <<items, common, cls, merged, workflow, rebound>>
  /\ UNCHANGED <<missing_fields, heap, result>>
  /\ UNCHANGED <<stack, args, meta, file, returned>>

\* WorkflowClass = create_dataclass_from_dict("Workflow", data)
CreateWorkflowClass ==
  /\ pc = "loaded"
  /\ IF isdict(doc)
     THEN cls' = create_dataclass_from_dict(doc) /\ pc' = "created" /\ error' = error
     ELSE cls' = cls /\ pc' = "raised" /\ error' = Raise("AttributeError")
  /\ UNCHANGED <<items, common, merged, doc, workflow, rebound>>
  /\ UNCHANGED <<missing_fields, heap, result>>
  /\ UNCHANGED <<stack, args, meta, file, returned>>

\* try: workflow = from_dict(WorkflowClass, data, config=config)
\* except Exception: raise ValueError
BindWorkflow ==
  /\ pc = "created"
  /\ LET bound == from_dict(cls, doc, TRUE)
     IN  IF israise(bound)
         THEN workflow' = workflow /\ pc' = "raised" /\ error' = Raise("ValueError")
         ELSE workflow' = bound /\ pc' = "bound" /\ error' = error
  /\ UNCHANGED <<items, common, cls, merged, doc, rebound>>
  /\ UNCHANGED <<missing_fields, heap, result>>
  /\ UNCHANGED <<stack, args, meta, file, returned>>

\* try: template = env.get_template(template_name)
\* except Exception: raise ValueError
GetTemplate(found) ==
  /\ pc = "printed"
  /\ IF found
     THEN pc' = "template" /\ error' = error
     ELSE pc' = "raised" /\ error' = Raise("ValueError")
  /\ UNCHANGED <<items, common, cls, merged, doc, workflow, rebound>>
  /\ UNCHANGED <<missing_fields, heap, result>>
  /\ UNCHANGED <<stack, args, meta, file, returned>>

\* try: rendered = template.render(**template_context), and the except
\* clauses around it
RenderTemplate(rendered) ==
  /\ pc = "template"
  /\ IF ~israise(rendered)
     THEN result' = rendered /\ pc' = "rendered" /\ error' = error
     ELSE /\ result' = result
          /\ pc' = "raised"
          /\ error' = IF rendered = Raise("Exception: Missing required field: x")
                      THEN Raise("MissingRequiredFieldError")
                      ELSE Raise("ValueError")
  /\ UNCHANGED <<items, common, cls, merged, doc, workflow, rebound>>
  /\ UNCHANGED <<missing_fields, heap>>
  /\ UNCHANGED <<stack, args, meta, file, returned>>

\* json.loads(rendered) with a JSONDecodeError that is only reported
ParseRenderedWarningOnly ==
  /\ pc = "rendered"
  /\ pc' = "parsed"
  /\ UNCHANGED <<items, common, cls, merged, doc, workflow, rebound>>
  /\ UNCHANGED <<missing_fields, error, heap, result>>
  /\ UNCHANGED <<stack, args, meta, file, returned>>

\* try: rendered_json = json.loads(rendered)
\* except json.JSONDecodeError: raise ValueError
ParseRendered ==
  /\ pc = "rendered"
  /\ IF is_json(result.v)
     THEN pc' = "parsed" /\ error' = error
     ELSE pc' = "raised" /\ error' = Raise("ValueError")
  /\ UNCHANGED <<items, common, cls, merged, doc, workflow, rebound>>
  /\ UNCHANGED <<missing_fields, heap, result>>
  /\ UNCHANGED <<stack, args, meta, file, returned>>

\* the output file of the run: output_file, or the name made of workflow_pname
output_file ==
  IF args.output_file # Null THEN args.output_file.v
  ELSE LET workflow_name ==
             IF "workflow_pname" \in DOMAIN workflow.v
             THEN workflow.v["workflow_pname"].v ELSE "output"
       IN  join(GENERATED_PATH, workflow_name \o "_mongo_cdcf.json")

\* os.makedirs(os.path.dirname(output_file), exist_ok=True)
Makedirs ==
  /\ pc = "parsed"
  /\ IF dirname(output_file) = ""
     THEN pc' = "raised" /\ error' = Raise("FileNotFoundError")
     ELSE pc' = "dirs" /\ error' = error
  /\ UNCHANGED <<items, common, cls, merged, doc, workflow, rebound>>
  /\ UNCHANGED <<missing_fields, heap, result>>
  /\ UNCHANGED <<stack, args, meta, file, returned>>

\* open(output_file, 'w', encoding='utf-8'): the file is created or truncated
OpenOutput ==
  /\ pc = "dirs"
  /\ file' = S("")
  /\ pc' = "opened"
  /\ UNCHANGED <<items, common, cls, merged, doc, workflow, rebound>>
  /\ UNCHANGED <<missing_fields, error, heap, result>>
  /\ UNCHANGED <<stack, args, meta, returned>>

\* f.write(rendered), and return output_file
WriteOutput ==
  /\ pc = "opened"
  /\ IF utf8_encodable(result.v)
     THEN /\ file' = result /\ pc' = "done" /\ error' = error
          /\ returned' = S(output_file)
     ELSE /\ file' = file /\ pc' = "raised" /\ error' = Raise("UnicodeEncodeError")
          /\ returned' = returned
  /\ UNCHANGED <<items, common, cls, merged, doc, workflow, rebound>>
  /\ UNCHANGED <<missing_fields, heap, result>>
  /\ UNCHANGED <<stack, args, meta>>

\* __main__: except Exception: print, sys.exit(1)
ExitOnError ==
  /\ pc = "raised"
  /\ pc' = "exited"
  /\ returned' = I(1)
  /\ UNCHANGED <<items, common, cls, merged, doc, workflow, rebound>>
  /\ UNCHANGED <<missing_fields, error, heap, result>>
  /\ UNCHANGED <<stack, args, meta, file>>

NextMain ==
  \/ LoadMetamodel
  \/ CreateWorkflowClass
  \/ BindWorkflow
  \/ ValidateMetamodel
  \/ RaiseMissingRequiredFieldError
  \/ PrintWorkflow
  \/ \E found \in BOOLEAN : GetTemplate(found)
  \/ \E rendered \in Renderings : RenderTemplate(rendered)
  \/ ParseRendered
  \/ Makedirs
  \/ OpenOutput
  \/ WriteOutput
  \/ ExitOnError

SpecMain == InitMain /\ [][NextMain]_vars

----------------------------------------------------------------------------
(* generate_cdcf.py: the MetaModel and its methods, and the tables of
   parse_metaclass in render_mssql_journal.py.  Strings are TLA+ strings,
   so containment, split and concatenation are computed on the characters. *)

\* sub in s, for a string s
contains(s, sub) ==
  \E i \in 1..(Len(s) - Len(sub) + 1) : SubSeq(s, i, i + Len(sub) - 1) = sub

\* s.split(sep)
RECURSIVE str_split(_, _)
str_split(s, sep) ==
  LET found == {i \in 1..(Len(s) - Len(sep) + 1) :
                  SubSeq(s, i, i + Len(sep) - 1) = sep}
  IN  IF found = {} THEN <<s>>
      ELSE LET i == CHOOSE j \in found : \A m \in found : j <= m
           IN  <<SubSeq(s, 1, i - 1)>>
                 \o str_split(SubSeq(s, i + Len(sep), Len(s)), sep)

\* code.split('.')[-1]
last_segment(code) == str_split(code, ".")[Len(str_split(code, "."))]

\* d.get(key, default)
get(d, key, default) == IF key \in DOMAIN d.v THEN d.v[key] ELSE default

\* the dict d with d[key] = value
with(d, key, value) ==
  D([n \in DOMAIN d.v \cup {key} |-> IF n = key THEN value ELSE d.v[n]])

\* SOURCE_TYPES.items(), in the order of the dict
SOURCE_TYPES ==
  << <<"tMssql.2019", "mssql">>, <<"tMssql.2022", "mssql">>,
     <<"tPostgres", "postgres">>, <<"tPostgreSQL", "postgres">>,
     <<"tOracle", "oracle">>, <<"tOracle.19", "oracle">>,
     <<"tMongoDB", "mongo">>, <<"tMongo", "mongo">> >>

TEMPLATE_FILES ==
  [mssql |-> "cdcf_mssql_journal.j2", postgres |-> "cdcf_postgres_journal.j2",
   oracle |-> "cdcf_oracle_journal.j2", mongo |-> "cdcf_mongo_journal.j2"]

ZERO_UUID == "00000000-0000-0000-0000-000000000000"

\* MetaModel.from_dict(data)
MetaModel_from_dict(data_) ==
  LET current == IF islist(data_) /\ Len(data_.v) > 0
                 THEN get(data_.v[1], "current", data_.v[1])
                 ELSE get(data_, "current", data_)
  IN  [application_code |-> get(current, "application_code", S("")),
       module_code |-> get(current, "module_code", S("")),
       workflow_code |-> get(current, "workflow_code", S("")),
       workflow_name |-> get(current, "workflow_name", S("")),
       metaclass_code |-> get(current, "metaclass_code", S("")),
       propvalues_json |-> get(current, "propvalues_json", D(<<>>)),
       tasks |-> get(current, "tasks", L(<<>>)).v,
       providers |-> get(current, "providers", L(<<>>)).v,
       appsystems |-> get(current, "appsystems", L(<<>>)).v,
       metaobjects |-> get(current, "metaobjects", L(<<>>)).v,
       task_transitions |-> get(current, "task_transitions", L(<<>>)).v]

\* get_source_type returning the type of the last provider that matches
get_source_type_last_provider(self) ==
  LET RECURSIVE for_provider(_)
      for_provider(i) ==
        IF i = 0 THEN Null
        ELSE LET tool_code == get(self.providers[i], "tool_code", S(""))
                 matching == {j \in 1..Len(SOURCE_TYPES) :
                                contains(tool_code.v, SOURCE_TYPES[j][1])}
             IN  IF tool_code.k # "str" THEN Raise("TypeError")
                 ELSE IF matching # {}
                      THEN S(SOURCE_TYPES[CHOOSE j \in matching :
                                            \A m \in matching : j <= m][2])
                 ELSE for_provider(i - 1)
  IN  for_provider(Len(self.providers))

\* MetaModel.get_source_type
get_source_type(self) ==
  LET RECURSIVE for_provider(_)
      for_provider(i) ==
        IF i > Len(self.providers) THEN Null
        ELSE LET tool_code == get(self.providers[i], "tool_code", S(""))
                 matching == {j \in 1..Len(SOURCE_TYPES) :
                                contains(tool_code.v, SOURCE_TYPES[j][1])}
             IN  IF tool_code.k # "str" THEN Raise("TypeError")
                 ELSE IF matching # {}
                      THEN S(SOURCE_TYPES[CHOOSE j \in matching :
                                            \A m \in matching : j <= m][2])
                 ELSE for_provider(i + 1)
  IN  for_provider(1)

\* MetaModel.get_diagram_id
get_diagram_id(self) ==
  LET flow_uuid == get(self.propvalues_json, "flow_uuid", S(""))
  IN  IF ~falsy(flow_uuid) THEN flow_uuid
      ELSE IF Len(self.tasks) > 0
           THEN LET task == self.tasks[1]
                IN  get(get(task, "propvalues_json", D(<<>>)), "task_uuid",
                        get(task, "task_uuid", S(ZERO_UUID)))
      ELSE S(ZERO_UUID)

\* get_transition_uuids keeping the first of the transitions with one key
get_transition_uuids_first_wins(self) ==
  LET metatask_code(i) == get(self.tasks[i], "metatask_code", S(""))
      task_pname(i) == get(self.tasks[i], "task_pname", S(""))
      named == {i \in 1..Len(self.tasks) :
                  ~falsy(metatask_code(i)) /\ ~falsy(task_pname(i))}
      metatask_to_pname ==
        [metatask_suffix \in {last_segment(metatask_code(i).v) : i \in named} |->
           task_pname(Max({i \in named :
                             last_segment(metatask_code(i).v) = metatask_suffix})).v]
      pname(suffix) == IF suffix \in DOMAIN metatask_to_pname
                       THEN metatask_to_pname[suffix] ELSE suffix
      propvalues(i) == get(self.task_transitions[i], "propvalues_json", Null)
      uuid_val(i) == get(propvalues(i), "flowtransition_uuid", S(""))
      with_uuid == {i \in 1..Len(self.task_transitions) :
                      ~falsy(propvalues(i)) /\ ~falsy(uuid_val(i))}
      key(i) ==
        LET from_suffix ==
              last_segment(get(self.task_transitions[i], "task_from_code", S("")).v)
            to_code == get(self.task_transitions[i], "task_to_code", S("")).v
            to_pname == IF to_code = "kafka_sink" THEN "kafka"
                        ELSE pname(last_segment(to_code))
        IN  pname(from_suffix) \o "__" \o to_pname
  IN  D([k \in {key(i) : i \in with_uuid} |->
           uuid_val(CHOOSE i \in with_uuid :
                      key(i) = k /\ \A j \in with_uuid : key(j) = k => i <= j)])

\* MetaModel.get_transition_uuids
get_transition_uuids(self) ==
  LET metatask_code(i) == get(self.tasks[i], "metatask_code", S(""))
      task_pname(i) == get(self.tasks[i], "task_pname", S(""))
      named == {i \in 1..Len(self.tasks) :
                  ~falsy(metatask_code(i)) /\ ~falsy(task_pname(i))}
      metatask_to_pname ==
        [metatask_suffix \in {last_segment(metatask_code(i).v) : i \in named} |->
           task_pname(Max({i \in named :
                             last_segment(metatask_code(i).v) = metatask_suffix})).v]
      pname(suffix) == IF suffix \in DOMAIN metatask_to_pname
                       THEN metatask_to_pname[suffix] ELSE suffix
      propvalues(i) == get(self.task_transitions[i], "propvalues_json", Null)
      uuid_val(i) == get(propvalues(i), "flowtransition_uuid", S(""))
      with_uuid == {i \in 1..Len(self.task_transitions) :
                      ~falsy(propvalues(i)) /\ ~falsy(uuid_val(i))}
      key(i) ==
        LET from_suffix ==
              last_segment(get(self.task_transitions[i], "task_from_code", S("")).v)
            to_code == get(self.task_transitions[i], "task_to_code", S("")).v
            to_pname == IF to_code = "kafka_sink" THEN "kafka"
                        ELSE pname(last_segment(to_code))
        IN  pname(from_suffix) \o "__" \o to_pname
  IN  D([k \in {key(i) : i \in with_uuid} |->
           uuid_val(Max({i \in with_uuid : key(i) = k}))])

\* the entry of a table
table_entry(schema, table) ==
  D([schema |-> S(schema), table |-> S(table), full |-> S(schema \o "." \o table)])

\* get_tables without the fallback to application_code
get_tables_no_fallback(self) ==
  LET tables_of(obj) ==
        LET entitytype == get(obj, "entitytype_pname", S(""))
            parts == str_split(entitytype.v, "__")
        IN  IF falsy(entitytype) THEN <<>>
            ELSE IF Len(parts) = 2 THEN <<table_entry(parts[1], parts[2])>>
            ELSE <<>>
  IN  L(flatten(Map(self.metaobjects, tables_of)))

\* MetaModel.get_tables
get_tables(self) ==
  LET tables_of(obj) ==
        LET entitytype == get(obj, "entitytype_pname", S(""))
            parts == str_split(entitytype.v, "__")
        IN  IF falsy(entitytype) THEN <<>>
            ELSE IF Len(parts) = 2 THEN <<table_entry(parts[1], parts[2])>>
            ELSE <<table_entry(self.application_code.v, entitytype.v)>>
  IN  L(flatten(Map(self.metaobjects, tables_of)))

\* parse_metaclass: the tables of current.get('metaobjects', [])
parse_metaclass_tables(data_) ==
  LET current == get(data_.v[1], "current", D(<<>>))
      metaobjects == get(current, "metaobjects", L(<<>>)).v
      tables_of(obj) ==
        LET entitytype_pname == get(obj, "entitytype_pname", S(""))
            parts == str_split(entitytype_pname.v, "__")
        IN  IF falsy(entitytype_pname) THEN <<>>
            ELSE IF Len(parts) = 2 THEN <<table_entry(parts[1], parts[2])>>
            ELSE <<>>
  IN  L(flatten(Map(metaobjects, tables_of)))

MaxProviders == 2
MaxTasks == 2
MaxTransitions == 2
MaxMetaobjects == 2

Lists(set, n) == UNION {[1..m -> set] : m \in 0..n}

ToolCodes ==
  {"tMssql.2019", "tPostgreSQL.14", "tOracle.19", "tMongoDB_tOracle", "kafka", ""}

Providers == {D(<<>>)} \cup {D([tool_code |-> S(t)]) : t \in ToolCodes}

DiagramTasks ==
  LET tasks == {D(<<>>)} \cup
                 {D([propvalues_json |-> pv]) :
                    pv \in {D([task_uuid |-> S("")]), D([task_uuid |-> S("p")])}}
  IN  tasks \cup {with(t, "task_uuid", S(u)) : t \in tasks, u \in {"", "t"}}

TransitionTasks ==
  {D([metatask_code |-> S("mm.source"), task_pname |-> S("src")]),
   D([metatask_code |-> S("source"), task_pname |-> S("SRC")]),
   D([metatask_code |-> S("mm.sink"), task_pname |-> S("dst")]),
   D([metatask_code |-> S("mm.source"), task_pname |-> S("")])}

Transitions ==
  {D([propvalues_json |-> D([flowtransition_uuid |-> S("u1")]),
      task_from_code |-> S("a.source"), task_to_code |-> S("kafka_sink")]),
   D([propvalues_json |-> D([flowtransition_uuid |-> S("u2")]),
      task_from_code |-> S("b.source"), task_to_code |-> S("kafka_sink")]),
   D([propvalues_json |-> D([flowtransition_uuid |-> S("u3")]),
      task_from_code |-> S("source"), task_to_code |-> S("a.sink")]),
   D([propvalues_json |-> D([flowtransition_uuid |-> S("")]),
      task_from_code |-> S("a.source"), task_to_code |-> S("a.sink")]),
   D([task_from_code |-> S("a.source"), task_to_code |-> S("a.sink")]),
   D([propvalues_json |-> D([flowtransition_uuid |-> S("u4")]),
      task_to_code |-> S("x.kafka_sink")])}

EntityTypes == {"", "dbo__t", "t", "a__b__c", "a___b", "__t"}

Metaobjects == {D(<<>>)} \cup {D([entitytype_pname |-> S(e)]) : e \in EntityTypes}

\* the "current" documents of the metamodel files: with providers, with
\* tasks and a flow_uuid, with tasks and transitions, with metaobjects
ProviderDocuments(n) == {D([providers |-> L(ps)]) : ps \in Lists(Providers, n)}

DiagramDocuments(n) ==
  {with(c, "tasks", L(ts)) :
     c \in {D(<<>>), D([propvalues_json |-> D(<<>>)]),
            D([propvalues_json |-> D([flow_uuid |-> S("")])]),
            D([propvalues_json |-> D([flow_uuid |-> S("f")])])},
     ts \in Lists(DiagramTasks, n)}

TransitionDocuments(n, m) ==
  {D([tasks |-> L(ts), task_transitions |-> L(trs)]) :
     ts \in Lists(TransitionTasks, n), trs \in Lists(Transitions, m)}

TableDocuments(n) ==
  {with(c, "metaobjects", L(os)) :
     c \in {D(<<>>), D([application_code |-> S("app")])},
     os \in Lists(Metaobjects, n)}

Currents(providers, tasks, transitions, metaobjects) ==
  ProviderDocuments(providers) \cup DiagramDocuments(tasks)
    \cup TransitionDocuments(tasks, transitions) \cup TableDocuments(metaobjects)

InitMetaModel ==
  /\ doc \in {L(<<D([current |-> c])>>) :
              c \in Currents(MaxProviders, MaxTasks, MaxTransitions, MaxMetaobjects)}
  /\ meta = MetaModel_from_dict(doc)
  /\ pc = "loaded"
  /\ returned = Null
  /\ items = <<>> /\ common = Null /\ cls = Null /\ merged = Null
  /\ workflow = Null /\ rebound = Null
  /\ missing_fields = <<>> /\ error = Null /\ heap = <<>> /\ result = Null
  /\ stack = <<>> /\ args = Null /\ file = Null

\* a call of a method of meta, or of parse_metaclass on the same file
Return(name, value) ==
  /\ pc = "loaded"
  /\ pc' = name
  /\ returned' = value
  /\ UNCHANGED <<items, common, cls, merged, doc, workflow, rebound>>
  /\ UNCHANGED <<missing_fields, error, heap, result>>
  /\ UNCHANGED <<stack, args, meta, file>>

GetSourceType == Return("get_source_type", get_source_type(meta))

GetDiagramId == Return("get_diagram_id", get_diagram_id(meta))

GetTransitionUuids == Return("get_transition_uuids", get_transition_uuids(meta))

GetTables == Return("get_tables", get_tables(meta))

ParseMetaclass == Return("parse_metaclass", parse_metaclass_tables(doc))

NextMetaModel ==
  \/ GetSourceType
  \/ GetDiagramId
  \/ GetTransitionUuids
  \/ GetTables
  \/ ParseMetaclass

SpecMetaModel == InitMetaModel /\ [][NextMetaModel]_vars

----------------------------------------------------------------------------
(* main of generate_cdcf.py, step by step.  args holds the command line and
   the output file as it is before the run, doc what json.load gives for
   --meta; the one frame of stack holds the local variables of main.  An
   exception that main does not catch ends the interpreter with status 1,
   as sys.exit(1) does. *)

\* what open and json.load give for the --meta file
CdcfDocuments ==
  {Raise("JSONDecodeError")}
    \cup {L(<<D([current |-> D([providers |-> L(ps)])])>>) :
            ps \in {<<>>, <<D([tool_code |-> S("kafka")])>>,
                    <<D([tool_code |-> S("kafka")]), D([tool_code |-> S("tOracle.19")])>>,
                    <<D([tool_code |-> Null])>>}}

CdcfArgs ==
  [meta : {"meta/m.json"},
   template : {"mssql", "postgres", "oracle", "mongo", "auto"},
   templates_dir : {"templates/cdcf"},
   output : {Null, S("out.json"), S("missing/out.json")},
   pretty : BOOLEAN,
   file : {Null, S("old")}]

\* json.dump(json.loads(text), f, indent=2, ensure_ascii=False): what is
\* written, for the texts that parse
indented(text) ==
  CASE text = "{}" -> "{}"
    [] text = "{\"a\": 1}" -> "{\n  \"a\": 1\n}"
    [] text = SurrogateText -> "{\n  \"a\": \"<U+D800>\"\n}"

\* what json.dump has written when the encoding of a chunk fails
written_before_error(text) ==
  CASE text = SurrogateText -> "{\n  \"a\": "

\* str(meta_path.parent / f"{meta_path.stem}_cdcf.json")
default_output(meta_path) ==
  LET name == str_split(meta_path, "/")[Len(str_split(meta_path, "/"))]
      stem == IF contains(name, ".")
              THEN SubSeq(name, 1, Max({i \in 1..Len(name) : SubSeq(name, i, i) = "."}) - 1)
              ELSE name
      parent == dirname(meta_path)
  IN  IF parent = "" THEN stem \o "_cdcf.json" ELSE parent \o "/" \o stem \o "_cdcf.json"

\* os.path.isdir of the directories of the run: the working directory and
\* the directory of the metamodel exist
isdir(path) == path \in {"", "meta"}

locals == stack[1]

InitCdcf ==
  /\ args \in CdcfArgs
  /\ doc \in CdcfDocuments
  /\ file = args.file
  /\ pc = "cdcf_main"
  /\ stack = <<[fn |-> "main", source_type |-> Null, output |-> Null,
                output_json |-> Null, path |-> args.output]>>
  /\ meta = Null /\ returned = Null /\ error = Null
  /\ items = <<>> /\ common = Null /\ cls = Null /\ merged = Null
  /\ workflow = Null /\ rebound = Null
  /\ missing_fields = <<>> /\ heap = <<>> /\ result = Null

\* the end of the run: sys.exit(1), or an exception nothing catches
Exit(reason) ==
  /\ pc' = "exited"
  /\ returned' = I(1)
  /\ error' = reason

\* meta = load_metamodel(args.meta)
CdcfLoadMetamodel ==
  /\ pc = "cdcf_main"
  /\ IF israise(doc)
     THEN Exit(doc) /\ meta' = meta
     ELSE /\ meta' = MetaModel_from_dict(doc)
          /\ pc' = "cdcf_loaded"
          /\ UNCHANGED <<returned, error>>
  /\ UNCHANGED <<items, common, cls, merged, doc, workflow, rebound>>
  /\ UNCHANGED <<missing_fields, heap, result, stack, args, file>>

\* source_type = args.template; if 'auto': meta.get_source_type(), and
\* sys.exit(1) when it is None
DetermineSourceType ==
  /\ pc = "cdcf_loaded"
  /\ LET source_type == IF args.template = "auto" THEN get_source_type(meta)
                        ELSE S(args.template)
     IN  IF israise(source_type) THEN Exit(source_type) /\ stack' = stack
         ELSE IF source_type = Null
              THEN Exit(S("Could not determine source type")) /\ stack' = stack
         ELSE /\ stack' = [stack EXCEPT ![1].source_type = source_type]
              /\ pc' = "source_type"
              /\ UNCHANGED <<returned, error>>
  /\ UNCHANGED <<items, common, cls, merged, doc, workflow, rebound>>
  /\ UNCHANGED <<missing_fields, heap, result, args, meta, file>>

\* template_file = TEMPLATE_FILES.get(source_type), and the two exits on an
\* unknown source type and on a template file that does not exist
FindTemplate(exists) ==
  /\ pc = "source_type"
  /\ IF locals.source_type.v \notin DOMAIN TEMPLATE_FILES
     THEN Exit(S("Unknown source type"))
     ELSE IF ~exists
          THEN Exit(S("Template not found"))
     ELSE pc' = "template_found" /\ UNCHANGED <<returned, error>>
  /\ UNCHANGED <<items, common, cls, merged, doc, workflow, rebound>>
  /\ UNCHANGED <<missing_fields, heap, result, stack, args, meta, file>>

\* context = prepare_context(meta); try: output = render_template(...)
\* except Exception: sys.exit(1)
CdcfRender(rendered) ==
  /\ pc = "template_found"
  /\ IF israise(rendered)
     THEN Exit(S("Template rendering failed")) /\ stack' = stack
     ELSE /\ stack' = [stack EXCEPT ![1].output = rendered]
          /\ pc' = "cdcf_rendered"
          /\ UNCHANGED <<returned, error>>
  /\ UNCHANGED <<items, common, cls, merged, doc, workflow, rebound>>
  /\ UNCHANGED <<missing_fields, heap, result, args, meta, file>>

\* CdcfParse that leaves the run on a text that is not JSON
CdcfParseStrict ==
  /\ pc = "cdcf_rendered"
  /\ IF is_json(locals.output.v)
     THEN /\ stack' = [stack EXCEPT
                         ![1].output_json = [k |-> "json", v |-> locals.output.v],
                         ![1].path = IF args.output = Null
                                     THEN S(default_output(args.meta)) ELSE args.output]
          /\ pc' = "cdcf_parsed"
          /\ UNCHANGED <<returned, error>>
     ELSE Exit(S("Generated JSON is not valid")) /\ stack' = stack
  /\ UNCHANGED <<items, common, cls, merged, doc, workflow, rebound>>
  /\ UNCHANGED <<missing_fields, heap, result, args, meta, file>>

\* try: output_json = json.loads(output) except JSONDecodeError: warning; and
\* the default of args.output
CdcfParse ==
  /\ pc = "cdcf_rendered"
  /\ stack' = [stack EXCEPT
                 ![1].output_json = IF is_json(locals.output.v)
                                    THEN [k |-> "json", v |-> locals.output.v]
                                    ELSE Null,
                 ![1].path = IF args.output = Null
                             THEN S(default_output(args.meta)) ELSE args.output]
  /\ pc' = "cdcf_parsed"
  /\ UNCHANGED <<items, common, cls, merged, doc, workflow, rebound>>
  /\ UNCHANGED <<missing_fields, error, heap, result, args, meta, file, returned>>

\* open(args.output, 'w', encoding='utf-8'): the file is created or
\* truncated; the directory of the path is not created
CdcfOpen ==
  /\ pc = "cdcf_parsed"
  /\ IF isdir(dirname(locals.path.v))
     THEN file' = S("") /\ pc' = "cdcf_opened" /\ UNCHANGED <<returned, error>>
     ELSE file' = file /\ Exit(Raise("FileNotFoundError"))
  /\ UNCHANGED <<items, common, cls, merged, doc, workflow, rebound>>
  /\ UNCHANGED <<missing_fields, heap, result, stack, args, meta>>

\* json.dump(output_json, f, indent=2, ensure_ascii=False) or f.write(output)
CdcfWrite ==
  /\ pc = "cdcf_opened"
  /\ LET output == locals.output.v
         pretty == args.pretty /\ locals.output_json # Null
     IN  IF utf8_encodable(output)
         THEN /\ file' = IF pretty THEN S(indented(output)) ELSE S(output)
              /\ pc' = "cdcf_done"
              /\ UNCHANGED <<returned, error>>
         ELSE /\ file' = IF pretty THEN S(written_before_error(output)) ELSE file
              /\ Exit(Raise("UnicodeEncodeError"))
  /\ UNCHANGED <<items, common, cls, merged, doc, workflow, rebound>>
  /\ UNCHANGED <<missing_fields, heap, result, stack, args, meta>>

NextCdcf ==
  \/ CdcfLoadMetamodel
  \/ DetermineSourceType
  \/ \E exists \in BOOLEAN : FindTemplate(exists)
  \/ \E rendered \in {Raise("Exception")} \cup {S(t) : t \in Texts} : CdcfRender(rendered)
  \/ CdcfParse
  \/ CdcfOpen
  \/ CdcfWrite

SpecCdcf == InitCdcf /\ [][NextCdcf]_vars /\ WF_vars(NextCdcf)

----------------------------------------------------------------------------
(* Properties *)

\* the shape inferred from a list of samples
Shape(its) == create_dataclass_from_dict(get_common_structure(its))

Permute(its, p) == [i \in 1..Len(its) |-> its[p[i]]]

\* the present and the non-null present values of a field
present(key) == values_of(items, key)
non_null(key) == SelectSeq(present(key), LAMBDA x : x # Null)
in_every_sample(key) == \A i \in 1..Len(items) : key \in DOMAIN items[i].v
isscalar(x) == x.k \in {"bool", "int", "str"}
kinds(key) == {non_null(key)[i].k : i \in 1..Len(non_null(key))}

\* C1: inference is order-independent: every permutation of the samples
\* yields the same shape (same fields, same kind of every field at every
\* depth) as the samples in the given order.
C1_OrderIndependent ==
  pc = "class" /\ items # <<>> =>
    \A p \in Permutations(1..Len(items)) :
      Shape(Permute(items, p)) = create_dataclass_from_dict(common)

\* C2: inferring from the concatenation A ++ B yields the shape of
\* merge_dicts(get_common_structure(A), get_common_structure(B)), and of the
\* same expression with A and B swapped.
C2_ConcatIsMerge ==
  pc = "merged" =>
    \A i \in 1..(Len(items) - 1) :
      LET inferA == get_common_structure(SubSeq(items, 1, i))
          inferB == get_common_structure(SubSeq(items, i + 1, Len(items)))
      IN  /\ merged = merge_dicts(inferA, inferB) =>
               create_dataclass_from_dict(merged) = Shape(items)
          /\ create_dataclass_from_dict(merge_dicts(inferB, inferA)) = Shape(items)

\* C3: both copies of merge_dicts are commutative and associative on shape
\* dictionaries.
C3_MergeCommutativeAssociative ==
  pc = "merged" =>
    LET shapes == {get_common_structure(<<items[i]>>) : i \in 1..Len(items)}
                    \cup {merged}
    IN  \A a, b, c \in shapes :
          /\ merge_dicts(a, b) = merge_dicts(b, a)
          /\ merge_dicts(merge_dicts(a, b), c) = merge_dicts(a, merge_dicts(b, c))
          /\ tdg_merge_dicts(a, b) = tdg_merge_dicts(b, a)
          /\ tdg_merge_dicts(tdg_merge_dicts(a, b), c)
               = tdg_merge_dicts(a, tdg_merge_dicts(b, c))

\* C4: a field is marked required (not encoded as None by
\* get_common_structure) if and only if it is a key of every sample,
\* whatever its values.
C4_RequiredIffInEverySample ==
  pc = "class" /\ items # <<>> =>
    \A key \in DOMAIN common.v :
      (common.v[key] # Null) <=> in_every_sample(key)

\* C5: binding the root document the class was generated from, or any one of
\* its samples, succeeds.
C5_BindingAcceptsSamples ==
  pc \in {"bound", "failed"}
    /\ doc \in {data} \cup {root(<<items[i]>>) : i \in 1..Len(items)}
  => ~israise(workflow)

\* C6: binding never throws for a structural mismatch, whatever the document.
C6_BindingNeverThrows == pc # "failed"

\* C7: a field present in every sample whose non-null values are all scalars
\* gets their common kind when they share one and `any` when they disagree.
C7_ScalarGeneralization ==
  pc = "class" =>
    \A key \in DOMAIN common.v :
      in_every_sample(key) /\ non_null(key) # <<>>
        /\ (\A i \in 1..Len(non_null(key)) : isscalar(non_null(key)[i]))
      => Shape(items).v[key] =
           IF Cardinality(kinds(key)) = 1
           THEN OptionalOf(Prim(CHOOSE t \in kinds(key) : TRUE))
           ELSE OptionalOf(AnyT)

\* C8: a field that is a key of only some samples is optional and keeps the
\* kind generalized from its present values: present scalar values of one
\* kind give that kind, not Unknown.
C8_OptionalFieldKeepsKind ==
  pc = "class" =>
    \A key \in DOMAIN common.v :
      ~in_every_sample(key) /\ non_null(key) # <<>>
        /\ (\A i \in 1..Len(non_null(key)) : isscalar(non_null(key)[i]))
        /\ Cardinality(kinds(key)) = 1
      => Shape(items).v[key] = OptionalOf(Prim(CHOOSE t \in kinds(key) : TRUE))

\* C9: a field gets a nested Record shape exactly when every non-null
\* present value of the field is an object, and the Record is the inference
\* applied to those objects.
C9_RecordIffAllObjects ==
  pc = "class" =>
    \A key \in DOMAIN common.v :
      LET all_objects ==
            /\ non_null(key) # <<>>
            /\ \A i \in 1..Len(non_null(key)) : isdict(non_null(key)[i])
      IN  /\ isdict(common.v[key]) <=> all_objects
          /\ isdict(common.v[key]) =>
               common.v[key] = get_common_structure(non_null(key))

\* values a list element is changed to
ElementValues == {Null, I(1), S("x"), L(<<>>), D([a |-> I(1)]), D([b |-> S("x")])}

\* items with element j of the list items[i][key] changed to x
change_element(i, key, j, x) ==
  [items EXCEPT ![i] = D([items[i].v EXCEPT ![key] = L([@.v EXCEPT ![j] = x])])]

nonempty_list(i, key) ==
  key \in DOMAIN items[i].v /\ islist(items[i].v[key]) /\ items[i].v[key].v # <<>>

\* items[i][key] is the first non-empty list observed for the field
first_nonempty_list(i, key) ==
  nonempty_list(i, key) /\ \A h \in 1..(i - 1) : ~nonempty_list(h, key)

\* C10 as stated: at the root document too, only the first element of a
\* list-valued field decides the element shape, so changing another element
\* of data["items"] leaves the class unchanged.
C10_FirstElementOnlyAtRoot ==
  pc = "class" =>
    \A j \in 2..Len(items) : \A s \in Samples :
      create_dataclass_from_dict(root([items EXCEPT ![j] = s])) = cls

\* C10 amended: in get_common_structure, changing any element other than the
\* first element of the first non-empty list of a field changes neither the
\* result nor the class built from it.
C10_FirstElementOnly ==
  pc = "class" =>
    \A i \in 1..Len(items) : \A key \in DOMAIN items[i].v :
      nonempty_list(i, key) =>
        \A j \in 1..Len(items[i].v[key].v) : \A x \in ElementValues :
          ~(first_nonempty_list(i, key) /\ j = 1) =>
            /\ get_common_structure(change_element(i, key, j, x)) = common
            /\ create_dataclass_from_dict(root(change_element(i, key, j, x))) = cls

\* a list field with two elements whose first element became the sample
C10_Witness ==
  /\ pc = "class"
  /\ \E i \in 1..Len(items) :
       /\ first_nonempty_list(i, "a")
       /\ Len(items[i].v["a"].v) = 2
       /\ common.v["a"] = L(<<items[i].v["a"].v[1]>>)
       /\ items[i].v["a"].v[2] # items[i].v["a"].v[1]

\* C11: the key set of get_common_structure's result is the union of the key
\* sets of all samples, and the result for an empty list is the empty record.
C11_FieldUnion ==
  pc = "class" =>
    /\ DOMAIN common.v = UNION {DOMAIN items[i].v : i \in 1..Len(items)}
    /\ items = <<>> => common = D(<<>>)

\* two samples with different keys: both keys are in the result
C11_Witness ==
  /\ pc = "class"
  /\ Len(items) = 2
  /\ DOMAIN items[1].v = {"b"}
  /\ DOMAIN items[2].v = {"a"}
  /\ DOMAIN common.v = {"a", "b"}

\* C12: a field whose every present value is null is None in
\* get_common_structure's result and Optional[Any] in the generated class.
C12_AllNullIsUnknown ==
  pc = "class" /\ items # <<>> =>
    \A key \in DOMAIN common.v :
      non_null(key) = <<>> =>
        /\ common.v[key] = Null
        /\ create_dataclass_from_dict(common).v[key] = OptionalOf(AnyT)

\* two samples that both hold null for the field
C12_Witness ==
  /\ pc = "class"
  /\ Len(items) = 2
  /\ in_every_sample("a")
  /\ non_null("a") = <<>>
  /\ common.v["a"] = Null

\* the items whose value for the field is not an empty list
without_empty_lists(key) ==
  SelectSeq(items, LAMBDA item : ~(key \in DOMAIN item.v /\ item.v[key] = L(<<>>)))

\* C13: a field whose non-null values are all lists stays a List: List of
\* Unknown when no list is non-empty, and otherwise the element shape that
\* the samples without the empty lists give.
C13_EmptyListsKeepList ==
  pc = "class" =>
    \A key \in DOMAIN common.v :
      non_null(key) # <<>> /\ (\A i \in 1..Len(non_null(key)) : islist(non_null(key)[i]))
      => IF \A i \in 1..Len(non_null(key)) : non_null(key)[i].v = <<>>
         THEN Shape(items).v[key] = ListOf(AnyT)
         ELSE /\ Shape(items).v[key].k = "List"
              /\ Shape(items).v[key] = Shape(without_empty_lists(key)).v[key]

\* the class generated for the elements of the root list, and the elements
\* of the document's list that are objects
item_class == cls.v["items"].v
has_item_class == cls.v["items"].k = "List" /\ item_class.k = "class"
doc_items ==
  IF isdict(doc) /\ "items" \in DOMAIN doc.v /\ islist(doc.v["items"])
  THEN SelectSeq(doc.v["items"].v, isdict) ELSE <<>>

\* C14: binding a document that lacks a required field (a field of every
\* sample) reports that field as missing and still returns a bound value.
C14_MissingRequiredReported ==
  pc \in {"bound", "failed"} =>
    /\ (isdict(doc) /\ "items" \notin DOMAIN doc.v) =>
         /\ missing_value_errors(cls, doc) = {"items"}
         /\ ~israise(workflow)
    /\ has_item_class =>
         \A j \in 1..Len(doc_items) : \A key \in DOMAIN common.v :
           (in_every_sample(key) /\ key \notin DOMAIN doc_items[j].v) =>
             key \in missing_value_errors(item_class, doc_items[j])

\* C15: a field that some sample lacks may be absent from the document: it
\* binds to None and raises nothing, whatever kind of value the samples give it.
C15_MissingOptionalBindsNull ==
  (pc \in {"bound", "failed"} /\ has_item_class) =>
    \A j \in 1..Len(doc_items) : \A key \in DOMAIN common.v :
      (~in_every_sample(key) /\ key \notin DOMAIN doc_items[j].v) =>
        /\ from_dict(Class([n \in {key} |-> item_class.v[n]]), doc_items[j], TRUE)
             = Obj([n \in {key} |-> Null])
        /\ key \notin missing_value_errors(item_class, doc_items[j])
        /\ (pc = "bound" /\ islist(workflow.v["items"])
              /\ doc.v["items"].v = doc_items) =>
             workflow.v["items"].v[j].v[key] = Null

C15_Witness ==
  /\ pc = "bound" /\ has_item_class /\ Len(doc_items) = 1
  /\ "a" \in DOMAIN common.v /\ ~in_every_sample("a")
  /\ \E i \in 1..Len(items) : "a" \in DOMAIN items[i].v /\ items[i].v["a"].k \in {"list", "dict"}
  /\ "a" \notin DOMAIN doc_items[1].v
  /\ workflow.v["items"].v[1].v["a"] = Null

\* the document with the key "z" added to the objects bound against a
\* generated class at the given depths (1 the document, 2 the elements of its
\* list, 3 the objects below them)
RECURSIVE with_extra(_, _, _, _)
with_extra(t, x, depth, depths) ==
  CASE t.k = "class" /\ isdict(x) ->
         D([n \in DOMAIN x.v \cup (IF depth \in depths THEN {"z"} ELSE {}) |->
              IF n \notin DOMAIN x.v THEN I(1)
              ELSE IF n \in DOMAIN t.v
                   THEN with_extra(t.v[n], x.v[n], depth + 1, depths)
                   ELSE x.v[n]])
    [] t.k = "Optional" -> with_extra(t.v, x, depth, depths)
    [] t.k = "List" /\ islist(x) ->
         L(Map(x.v, LAMBDA e : with_extra(t.v, e, depth, depths)))
    [] OTHER -> x

\* the document with the key "z" added to every object in it
RECURSIVE with_extra_everywhere(_)
with_extra_everywhere(x) ==
  CASE x.k = "dict" ->
         D([n \in DOMAIN x.v \cup {"z"} |->
              IF n \notin DOMAIN x.v THEN I(1) ELSE with_extra_everywhere(x.v[n])])
    [] x.k = "list" -> L(Map(x.v, with_extra_everywhere))
    [] OTHER -> x

\* C17 as stated: keys added to the objects of a document at any depth change
\* neither the bound value nor the errors of binding it.
C17_UnknownFieldsIgnoredAnywhere ==
  pc \in {"bound", "failed"} =>
    from_dict(cls, with_extra_everywhere(doc), TRUE) = workflow

\* C17: keys added to the objects of a document that are bound against a
\* generated class, at any depth, change neither the bound value nor the
\* errors of binding it.
C17_UnknownFieldsIgnored ==
  pc \in {"bound", "failed"} =>
    \A depths \in SUBSET {1, 2, 3} :
      from_dict(cls, with_extra(cls, doc, 1, depths), TRUE) = workflow

C17_Witness ==
  /\ pc = "bound" /\ has_item_class /\ Len(doc_items) >= 1
  /\ "a" \in DOMAIN item_class.v
  /\ item_class.v["a"].k = "Optional" /\ item_class.v["a"].v.k = "class"
  /\ "a" \in DOMAIN doc_items[1].v /\ isdict(doc_items[1].v["a"])
  /\ "z" \in DOMAIN with_extra(cls, doc, 1, {3}).v["items"].v[1].v["a"].v
  /\ from_dict(cls, with_extra(cls, doc, 1, {1, 2, 3}), TRUE) = workflow

\* C18: binding the JSON form of a bound value again gives the same bound
\* value.
C18_BindIdempotent ==
  pc \in {"rebound", "refailed"} => rebound = workflow

\* some attribute along the path is absent or None on the bound workflow
absent_or_none(field_path) ==
  LET parts == split(field_path)
      chain[i \in 0..Len(parts)] ==
        IF i = 0 THEN workflow
        ELSE IF chain[i - 1].k = "obj" /\ parts[i] \in DOMAIN chain[i - 1].v
             THEN chain[i - 1].v[parts[i]]
             ELSE [k |-> "absent", v |-> 0]
  IN  \E i \in 1..Len(parts) : chain[i].k \in {"absent", "null"}

\* C16: validate_metamodel returns, in the enumerated order and each at most
\* once, exactly the required paths with an absent or None attribute; main
\* raises MissingRequiredFieldError with that list iff the list is not empty.
C16_ValidationComplete ==
  /\ pc \in {"validated", "raised", "printed"} =>
       /\ missing_fields = SelectSeq(required_fields, absent_or_none)
       /\ \A i, j \in 1..Len(missing_fields) :
            missing_fields[i] = missing_fields[j] => i = j
  /\ pc = "validated" =>
       /\ ENABLED RaiseMissingRequiredFieldError <=> missing_fields # <<>>
       /\ ENABLED PrintWorkflow <=> missing_fields = <<>>
  /\ pc = "raised" => error.missing_fields = missing_fields /\ missing_fields # <<>>
  /\ pc = "printed" => missing_fields = <<>> /\ error = Null

C16_Witness ==
  LET cdcf == getattr(getattr(workflow, "propvalues_json"), "cdcf")
  IN  /\ pc = "raised"
      /\ getattr(cdcf, "debezium") = Null
      /\ getattr(cdcf, "source_type") = S("mongo")
      /\ israise(getattr(cdcf, "topic_prefix"))
      /\ error.missing_fields
           = <<"propvalues_json.cdcf.topic_prefix",
               "propvalues_json.cdcf.debezium.snapshot_mode">>

\* C20: for every non-empty sequence of JSON values as samples (objects,
\* scalars, lists or a mix) inference returns a shape and raises no error.
C20_NeverRejects ==
  pc # "start" => /\ ~israise(common)
                  /\ pc = "class" => cls.k = "class"

\* C19: a call of merge_dicts, get_common_structure or
\* create_dataclass_from_dict leaves every object that existed before the
\* call, hence every input dict and list at every depth, as it was.
C19_InputsUnchanged ==
  [][/\ Len(heap') >= Len(heap)
     /\ \A addr \in 1..Len(heap) : heap'[addr] = heap[addr]
     /\ deref(heap', loaded.cell) = data]_vars

C19_Witness ==
  /\ pc = "done"
  /\ Len(items) = 2
  /\ \A i \in 1..2 : "a" \in DOMAIN items[i].v /\ isdict(items[i].v["a"])
  /\ items[1] # items[2]
  /\ result.k = "ref"
  /\ merged = merge_dicts(merge_dicts(items[1], items[2]), items[1])
  /\ deref(heap, loaded.cell) = data

\* the values strictly nested inside a value
RECURSIVE nested_values(_)
nested_values(x) ==
  LET entries == IF x.k = "dict" THEN {x.v[n] : n \in DOMAIN x.v}
                 ELSE IF x.k = "list" THEN {x.v[i] : i \in 1..Len(x.v)}
                 ELSE {}
  IN  entries \cup UNION {nested_values(e) : e \in entries}

\* the argument of the call is nested inside the caller's argument; the list
\* handed to get_common_structure is a new list of dicts, each nested there
strictly_nested(callee, caller) ==
  \/ callee.arg \in nested_values(caller.arg)
  \/ /\ callee.fn = "get_common_structure"
     /\ \A i \in 1..Len(callee.arg.v) : callee.arg.v[i] \in nested_values(caller.arg)

\* C21 as stated: every recursive call is made on a value strictly nested
\* inside the caller's argument, the recursion depth never exceeds the
\* nesting depth of the input, and the call eventually returns.
C21_CallsOnNestedValues ==
  /\ [][EnterCall => strictly_nested(stack'[Len(stack')], top)]_vars
  /\ [](Len(stack) <= nesting_depth(data))
  /\ <>(pc = "returned")

\* C21: every recursive call is made on a value of strictly smaller nesting
\* depth than the caller's argument, the recursion depth never exceeds the
\* nesting depth of the input, and the call eventually returns.
C21_Terminates ==
  /\ [][EnterCall => nesting_depth(stack'[Len(stack')].arg) < nesting_depth(top.arg)]_vars
  /\ [](Len(stack) <= nesting_depth(data))
  /\ <>(pc = "returned")

C21_Witness ==
  /\ pc = "running"
  /\ Len(stack) = 3
  /\ top.fn = "create_dataclass_from_dict"
  /\ stack[2].fn = "create_dataclass_from_dict"
  /\ stack[2].arg = get_common_structure(items)
  /\ stack[2].arg \notin nested_values(data)

\* the explicit limit of the recursion depth the claim speaks of
DepthLimit == 3

\* C22: on an input nested deeper than the limit the recursion stops at the
\* limit with a DepthLimitExceeded error and does not run to its end.
C22_DepthGuarded ==
  nesting_depth(data) > DepthLimit =>
    /\ Len(stack) <= DepthLimit
    /\ pc # "returned"
    /\ pc = "failed" => error = Raise("DepthLimitExceeded")

\* a class without the names of the classes in it
RECURSIVE unnamed(_)
unnamed(t) ==
  CASE t.k = "class" -> Class([n \in DOMAIN t.v |-> unnamed(t.v[n])])
    [] t.k \in {"Optional", "List"} -> [k |-> t.k, v |-> unnamed(t.v)]
    [] OTHER -> t

\* the root document with its list under a key of the NAMES table
flows_data == D([flows |-> L(items)])

\* C23: the two copies of get_common_structure return equal results and the
\* two copies of create_dataclass_from_dict produce classes with the same
\* field names and field types, up to the names of the classes.
C23_CopiesEquivalent ==
  pc = "class" =>
    /\ tdg_get_common_structure(items) = common
    /\ unnamed(tdg_create_dataclass_from_dict("Workflow", data)) = cls
    /\ unnamed(tdg_create_dataclass_from_dict("Workflow", flows_data))
         = create_dataclass_from_dict(flows_data)

C23_Witness ==
  /\ pc = "class"
  /\ Len(items) = 2
  /\ cls.v["items"].v.k = "class"
  /\ tdg_create_dataclass_from_dict("Workflow", flows_data).v["flows"].v.name = "Flow"
  /\ nested_class_name("flows") = "Flows"
  /\ unnamed(tdg_create_dataclass_from_dict("Workflow", flows_data)).v["flows"]
       = cls.v["items"]

\* every key of every object in x, at every depth, is a field of the class
\* that t gives the object
RECURSIVE covers(_, _)
covers(t, x) ==
  IF isdict(x)
  THEN LET c == IF t.k = "Optional" THEN t.v ELSE t
       IN  \/ DOMAIN x.v = {}
           \/ /\ c.k = "class"
              /\ \A n \in DOMAIN x.v : n \in DOMAIN c.v /\ covers(c.v[n], x.v[n])
  ELSE IF islist(x)
  THEN \A i \in 1..Len(x.v) :
         isdict(x.v[i]) => t.k = "List" /\ covers(t.v, x.v[i])
  ELSE TRUE

\* C24 as stated: every key of every object element of the list, at every
\* nesting depth below it, is a field of the element class or of the
\* corresponding nested class.
C24_AllElementsAtEveryDepth ==
  pc = "class" => covers(cls.v["items"], L(items))

\* every key of the dicts is a field of the class, and for a key of every
\* dict the same holds of its dict values and the class of the field
RECURSIVE covers_common(_, _)
covers_common(c, dicts) ==
  \A i \in 1..Len(dicts) : \A key \in DOMAIN dicts[i].v :
    /\ key \in DOMAIN c.v
    /\ LET values == SelectSeq(values_of(dicts, key), isdict)
       IN  (Len(values_of(dicts, key)) = Len(dicts) /\ values # <<>>) =>
             /\ c.v[key].k = "Optional" /\ c.v[key].v.k = "class"
             /\ covers_common(c.v[key].v, values)

\* C24: every key of every object element of the list is a field of the
\* element class; below that, for a field that is a key of every element,
\* every key of every object value of the field is a field of the nested
\* class, and so on.
C24_AllElements ==
  (pc = "class" /\ items # <<>>) =>
    /\ has_item_class
    /\ covers_common(item_class, items)

C24_Witness ==
  /\ pc = "class"
  /\ Len(items) = 2
  /\ DOMAIN items[1].v = {"a"} /\ DOMAIN items[2].v = {"a", "b"}
  /\ isdict(items[1].v["a"]) /\ isdict(items[2].v["a"])
  /\ DOMAIN items[1].v["a"].v # DOMAIN items[2].v["a"].v
  /\ DOMAIN item_class.v = {"a", "b"}
  /\ DOMAIN item_class.v["a"].v.v = {"a", "b"}

\* the steps of main in their order
MainSteps ==
  << "main", "loaded", "created", "bound", "validated", "printed", "template",
     "rendered", "parsed", "dirs", "opened", "done" >>

step_of(p) == CHOOSE n \in 1..Len(MainSteps) : MainSteps[n] = p

\* every step of main goes to the next step or raises
strictly_ordered ==
  pc \in {"raised", "exited"}
    \/ pc' \in {"raised", "exited"}
    \/ step_of(pc') = step_of(pc) + 1

\* what has to be true of the run when the output file changes
gate_passed ==
  /\ workflow.k = "obj" /\ workflow = from_dict(cls, doc, TRUE)
  /\ validate_metamodel(workflow) = <<>> /\ missing_fields = <<>>
  /\ result \in {S(t) : t \in Texts}
  /\ is_json(result.v)

\* C25 as stated: the steps of main are strictly ordered, the output file
\* changes only after binding, validation, rendering and the JSON parse all
\* succeeded, and on any failure an exception is raised and the output file
\* is neither created nor modified.
C25_NoOutputOnFailure ==
  /\ [][strictly_ordered /\ (file' # file => (gate_passed /\ error = Null))]_vars
  /\ [](pc \in {"raised", "exited"} => (error.k = "raise" /\ file = args.file))

\* C25: the steps of main are strictly ordered and the output file changes
\* only after binding, validation, rendering and the JSON parse all
\* succeeded; on a failure before the output file is opened an exception is
\* raised and the file is neither created nor modified, while a failure of
\* the write itself raises after the file was created or truncated.
C25_WriteGated ==
  /\ [][strictly_ordered /\ (file' # file => (gate_passed /\ error = Null))]_vars
  /\ [](pc \in {"raised", "exited"} =>
          /\ error.k = "raise"
          /\ IF error = Raise("UnicodeEncodeError")
             THEN file = S("") /\ gate_passed
             ELSE file = args.file)
  /\ [](pc = "done" => (file = result /\ gate_passed))

C25_Witness ==
  /\ pc = "done"
  /\ args.file = S("old") /\ file = S("{\"a\": 1}")
  /\ args.output_file = Null
  /\ returned = S("src/generated/wf_mongo_cdcf.json")

\* the tool_code of provider i, '' when it has none
tool_code_of(i) == get(meta.providers[i], "tool_code", S("")).v

\* the source types of the patterns that the tool_code of provider i contains
source_types_of(i) ==
  {SOURCE_TYPES[j][2] : j \in {m \in 1..Len(SOURCE_TYPES) :
                                 contains(tool_code_of(i), SOURCE_TYPES[m][1])}}

\* C27: get_source_type returns the source type of the first provider, in
\* list order, whose tool_code contains one of the SOURCE_TYPES patterns
\* (of the first such pattern in the order of the table), and None exactly
\* when no provider's tool_code contains a pattern; the providers after the
\* first matching one never influence the result.
C27_FirstMatchingProvider ==
  pc = "get_source_type" =>
    LET matching == {i \in 1..Len(meta.providers) : source_types_of(i) # {}}
        first == CHOOSE i \in matching : \A m \in matching : i <= m
        first_pattern ==
          CHOOSE j \in 1..Len(SOURCE_TYPES) :
            /\ contains(tool_code_of(first), SOURCE_TYPES[j][1])
            /\ \A m \in 1..(j - 1) : ~contains(tool_code_of(first), SOURCE_TYPES[m][1])
    IN  /\ returned = Null <=> matching = {}
        /\ matching # {} =>
             /\ returned.k = "str"
             /\ returned.v \in source_types_of(first)
             /\ returned.v = SOURCE_TYPES[first_pattern][2]
             /\ \A later \in Lists(Providers, MaxProviders - first) :
                  get_source_type([meta EXCEPT !.providers = SubSeq(@, 1, first) \o later])
                    = returned

C27_Witness ==
  /\ pc = "get_source_type"
  /\ Len(meta.providers) = 2
  /\ tool_code_of(1) = "tOracle.19" /\ tool_code_of(2) = "tMssql.2019"
  /\ returned = S("oracle")

\* x is a non-empty string
nonempty_str(x) == x.k = "str" /\ x.v # ""

\* C28: get_diagram_id returns propvalues_json.flow_uuid when it is
\* non-empty, otherwise the first task's propvalues_json.task_uuid, else that
\* task's task_uuid, else the all-zero UUID; the result is always a non-empty
\* string and never depends on the tasks after the first.
C28_DiagramIdNonEmpty ==
  pc = "get_diagram_id" =>
    LET flow_uuid == get(meta.propvalues_json, "flow_uuid", S(""))
        task == meta.tasks[1]
        in_propvalues == get(get(task, "propvalues_json", D(<<>>)), "task_uuid", S(""))
        of_task == get(task, "task_uuid", S(""))
    IN  /\ nonempty_str(returned)
        /\ returned = IF nonempty_str(flow_uuid) THEN flow_uuid
                      ELSE IF meta.tasks = <<>> THEN S(ZERO_UUID)
                      ELSE IF nonempty_str(in_propvalues) THEN in_propvalues
                      ELSE IF nonempty_str(of_task) THEN of_task
                      ELSE S(ZERO_UUID)
        /\ \A later \in Lists(DiagramTasks, MaxTasks - 1) :
             meta.tasks # <<>> =>
               get_diagram_id([meta EXCEPT !.tasks = <<task>> \o later]) = returned

\* the transitions that have a non-empty propvalues_json.flowtransition_uuid
transitions_with_uuid ==
  {i \in 1..Len(meta.task_transitions) :
     LET propvalues == get(meta.task_transitions[i], "propvalues_json", D(<<>>))
     IN  isdict(propvalues) /\ nonempty_str(get(propvalues, "flowtransition_uuid", S("")))}

flowtransition_uuid(i) ==
  meta.task_transitions[i].v["propvalues_json"].v["flowtransition_uuid"]

\* the tasks whose metatask_code has the segment as its last segment
tasks_ending_in(segment) ==
  {i \in 1..Len(meta.tasks) :
     LET metatask_code == get(meta.tasks[i], "metatask_code", S(""))
     IN  nonempty_str(metatask_code) /\ last_segment(metatask_code.v) = segment}

\* the name of a code: the task_pname of the last task with a non-empty
\* task_pname whose metatask_code ends in the last segment of the code
pname_of_named_task(code) ==
  LET named == {i \in tasks_ending_in(last_segment(code)) :
                  nonempty_str(get(meta.tasks[i], "task_pname", S("")))}
  IN  IF named = {} THEN last_segment(code)
      ELSE meta.tasks[Max(named)].v["task_pname"].v

key_of_named_tasks(i) ==
  LET from_code == get(meta.task_transitions[i], "task_from_code", S("")).v
      to_code == get(meta.task_transitions[i], "task_to_code", S("")).v
  IN  pname_of_named_task(from_code) \o "__"
        \o (IF to_code = "kafka_sink" THEN "kafka" ELSE pname_of_named_task(to_code))

\* C29: get_transition_uuids maps every transition with a non-empty
\* propvalues_json.flowtransition_uuid to the key from_pname + '__' + to_pname,
\* where the last dot-separated segment of a code is replaced by the
\* task_pname of the task whose metatask_code ends in that segment (the last
\* such task that has a task_pname; the segment itself when there is none),
\* and a task_to_code 'kafka_sink' gives 'kafka'; transitions without a UUID
\* produce no entry and the later of two transitions with one key wins.
C29_TransitionKeys ==
  pc = "get_transition_uuids" =>
    /\ isdict(returned)
    /\ DOMAIN returned.v = {key_of_named_tasks(i) : i \in transitions_with_uuid}
    /\ \A i \in transitions_with_uuid :
         (\A j \in transitions_with_uuid :
            j > i => key_of_named_tasks(j) # key_of_named_tasks(i))
           => returned.v[key_of_named_tasks(i)] = flowtransition_uuid(i)

C29_Witness ==
  /\ pc = "get_transition_uuids"
  /\ Len(meta.tasks) = 2 /\ Len(meta.task_transitions) = 2
  /\ meta.tasks[2] = D([metatask_code |-> S("mm.source"), task_pname |-> S("")])
  /\ transitions_with_uuid = {1, 2}
  /\ flowtransition_uuid(1) = S("u1") /\ flowtransition_uuid(2) = S("u2")
  /\ DOMAIN returned.v = {"src__kafka"}
  /\ returned.v["src__kafka"] = S("u2")

\* name.count('__'): the occurrences of '__' from left to right that do not
\* overlap
RECURSIVE count_separators(_)
count_separators(name) ==
  IF Len(name) < 2 THEN 0
  ELSE IF SubSeq(name, 1, 2) = "__"
       THEN 1 + count_separators(SubSeq(name, 3, Len(name)))
  ELSE count_separators(SubSeq(name, 2, Len(name)))

\* the entry of a name with one '__': what stands before it and after it
schema_table_entry(name) ==
  LET at == CHOOSE i \in 1..(Len(name) - 1) :
              /\ SubSeq(name, i, i + 1) = "__"
              /\ \A j \in 1..(i - 1) : SubSeq(name, j, j + 1) # "__"
      schema == SubSeq(name, 1, at - 1)
      table == SubSeq(name, at + 2, Len(name))
  IN  D([schema |-> S(schema), table |-> S(table), full |-> S(schema \o "." \o table)])

\* the metaobjects with a non-empty entitytype_pname, in their order
named_metaobjects ==
  SelectSeq(meta.metaobjects,
            LAMBDA obj : nonempty_str(get(obj, "entitytype_pname", S(""))))

\* C30: get_tables yields, in metaobject order, one entry per metaobject
\* with a non-empty entitytype_pname: schema and table from a name with
\* exactly one '__', otherwise application_code as the schema and the whole
\* name as the table, full = schema.table; parse_metaclass yields the same
\* entries for the names with exactly one '__' and drops every other name.
C30_Tables ==
  LET name(i) == named_metaobjects[i].v["entitytype_pname"].v
      entry(i) == IF count_separators(name(i)) = 1 THEN schema_table_entry(name(i))
                  ELSE D([schema |-> meta.application_code,
                          table |-> S(name(i)),
                          full |-> S(meta.application_code.v \o "." \o name(i))])
      with_schema == SelectSeq([i \in 1..Len(named_metaobjects) |-> i],
                               LAMBDA i : count_separators(name(i)) = 1)
  IN  /\ pc = "get_tables" =>
           returned = L([i \in 1..Len(named_metaobjects) |-> entry(i)])
      /\ pc = "parse_metaclass" =>
           returned = L([i \in 1..Len(with_schema) |-> entry(with_schema[i])])

C30_Witness ==
  /\ pc = "get_tables"
  /\ meta.application_code = S("app")
  /\ Len(meta.metaobjects) = 2
  /\ meta.metaobjects[1] = D([entitytype_pname |-> S("a__b__c")])
  /\ meta.metaobjects[2] = D([entitytype_pname |-> S("dbo__t")])
  /\ returned.v[1].v["full"] = S("app.a__b__c")
  /\ returned.v[2].v["full"] = S("dbo.t")
  /\ parse_metaclass_tables(doc).v = <<returned.v[2]>>

\* the error exits of main that the claim lists
listed_exits ==
  {S("Could not determine source type"), S("Unknown source type"),
   S("Template not found"), S("Template rendering failed")}

\* the output file holds the rendered text, re-serialised with indentation
\* exactly when --pretty is given and the text parsed as JSON
output_written ==
  /\ locals.output # Null
  /\ file = IF args.pretty /\ is_json(locals.output.v)
            THEN S(indented(locals.output.v)) ELSE locals.output

\* C26 as stated: every listed error exit ends the run with status 1 before
\* any output is written, and once rendering succeeds the output file is
\* always written, also when the text is not valid JSON, re-serialised with
\* indentation only when --pretty is given and the text parsed as JSON.
C26_AlwaysWritten ==
  /\ []((pc = "exited" /\ error \in listed_exits) =>
          (returned = I(1) /\ file = args.file))
  /\ [](pc = "cdcf_rendered" => <>output_written)

\* C26: every listed error exit ends the run with status 1 before any output
\* is written; once rendering succeeds the run goes on to open and write the
\* output file, also when the text is not valid JSON, and ends with the file
\* written (re-serialised with indentation only when --pretty is given and
\* the text parsed as JSON) or with status 1 on an exception of open (the
\* file is untouched) or of the encoding of the text (the file is left
\* truncated or partly written).
C26_WrittenUnlessWriteFails ==
  /\ []((pc = "exited" /\ error \in listed_exits) =>
          (returned = I(1) /\ file = args.file))
  /\ [](pc = "cdcf_rendered" =>
          <>(\/ pc = "cdcf_done" /\ output_written
             \/ /\ pc = "exited" /\ returned = I(1)
                /\ \/ error = Raise("FileNotFoundError") /\ file = args.file
                   \/ /\ error = Raise("UnicodeEncodeError")
                      /\ ~utf8_encodable(locals.output.v)
                      /\ file # args.file /\ ~output_written))
  /\ [](pc = "cdcf_done" =>
          (output_written /\ (is_json(locals.output.v) <=> locals.output_json # Null)))
  /\ []((pc \in {"cdcf_parsed", "cdcf_opened", "cdcf_done"}) => locals.output # Null)

C26_Witness ==
  /\ pc = "cdcf_done"
  /\ args.template = "auto" /\ locals.source_type = S("oracle")
  /\ args.pretty
  /\ locals.output = S("{")
  /\ locals.output_json = Null
  /\ args.output = Null /\ locals.path = S("meta/m_cdcf.json")
  /\ args.file = S("old") /\ file = S("{")

============================================================================
